---------------------------- MODULE Spec2Model ----------------------------
(***************************************************************************)
(* Model of the Living_Synthesizer acquisition and smoothing core.         *)
(*                                                                         *)
(*   - WindSmoother (src/src/wind_smoother.py): the step-based smoothing   *)
(*     engine, explored by Spec.                                           *)
(*   - WS2000Monitor.start_monitoring (src/src/monitor.py): the generator  *)
(*     that supervises the rtl_433 child process, explored by SpecMonitor. *)
(*   - SmoothRampController (src/examples/intensity_signal_to_synth.py):   *)
(*     the ramp shared by the ingestion thread and the updater thread,     *)
(*     explored by SpecRamp and, with fair scheduling, by SpecRampFair.    *)
(*   - SynthControl (src/midi/synth_control.py): the mappings from weather *)
(*     values to MIDI control values and their dispatch, explored by       *)
(*     SpecSynth.                                                          *)
(*                                                                         *)
(* Python floats are modelled as fixed-point integers with Unit steps per  *)
(* 1.0 (1.0 mph = Unit, progress 1.0 = Unit, response_speed 0.5 = Unit/2); *)
(* every product of two such numbers is divided by Unit and rounded down.  *)
(***************************************************************************)
EXTENDS Integers, Sequences, FiniteSets, TLC

VARIABLES
    \* ---- WindSmoother fields (wind_smoother.py:19-28) ----
    buffer_size,          \* self.buffer_size
    max_wind_mph,         \* self.max_wind_mph              (fixed-point)
    interpolation_steps,  \* self.interpolation_steps
    smoothing_type,       \* self.smoothing_type
    response_speed,       \* self.response_speed            (fixed-point)
    wind_buffer,          \* self.wind_buffer, oldest first
    maxlen,               \* self.wind_buffer.maxlen, fixed by deque(maxlen=...)
    last_value,           \* self.last_value                (fixed-point)
    target_value,         \* self.target_value              (fixed-point)
    current_step,         \* self.current_step
    \* ---- what the caller of the smoother observes ----
    op,                   \* the public method that ran last
    smoothed_out,         \* what get_smoothed_value returned, if it ran last
    normalized_out,       \* what get_normalized_value returned, if it ran last
    step_at_call,         \* current_step on entry of that get_smoothed_value
    gets_since_add,       \* get_smoothed_value calls since the last
                          \* add_wind_reading; -1 after a parameter change
    added,                \* every sample passed to add_wind_reading, in order
    outcome,              \* how that method ended: "ok", "printed:<message>" for
                          \* a message about a rejected argument, or
                          \* "raised:<exception>"
    nGet,                 \* calls made so far, to bound the exploration
    nCfg,
    \* ---- WS2000Monitor fields and the frame of start_monitoring ----
    process,              \* self.process: "None" or "Popen"
    last_reading,         \* self.last_reading: <<>> (None) or <<reading>>
    pc,                   \* the statement start_monitoring is at
    after,                \* where control goes when the finally block is done
    line,                 \* local line: <<>> ('' at end of file) or <<line>>
    wind_speed,           \* local wind_speed, mph                (fixed-point)
    \* ---- the world around the monitor ----
    child,                \* the rtl_433 child: "none", "running", "hung", "exited"
    stdout,               \* lines the child wrote that were not read yet
    records,              \* the records the consumer received, in order
    elapsed,              \* time slept by the generator, in tenths of a second
    nChecks,              \* check_device calls of the outer loop
    checks_failed,        \* those that returned False
    ever_present,         \* some check_device call returned True
    nSpawns,              \* subprocess.Popen calls that returned
    nLines,               \* lines written by all children
    slept_since_exit,     \* "no" from the detection of an exited child until
                          \* the next 5 s sleep ("yes"); "n/a" otherwise
    slept_since_error,    \* "no" from an exception caught in the generator
                          \* until the next 5 s sleep ("yes"); "n/a" otherwise
    read_lines,           \* every line readline returned, in order
    iteration,            \* what the inner loop has done since the top of
                          \* its current iteration, in order
    tick_out,             \* how the last finished iteration of the inner loop
                          \* ended: "record", "discarded", "no_line"; "none" at first
    interrupted,          \* a KeyboardInterrupt was raised in the generator
    \* ---- SmoothRampController fields (intensity_signal_to_synth.py:28-41) ----
    ramp_duration,        \* self.ramp_duration, in tenths of a second
    update_rate,          \* self.update_rate, in tenths of a second
    ramp_current_value,   \* self.current_value              (fixed-point)
    ramp_target_value,    \* self.target_value               (fixed-point)
    ramp_start_value,     \* self.start_value                (fixed-point)
    ramp_start_time,      \* self.ramp_start_time: <<>> (None) or <<time>>
    is_ramping,           \* self.is_ramping
    running,              \* self.running
    lock,                 \* holder of self.lock: "free", "main" or "ramp"
    \* ---- the ingestion (main) thread inside the controller ----
    m_pc,                 \* the statement of set_target / get_current_value it is at
    new_target,           \* argument of the set_target call in progress
    returned,             \* what the last get_current_value returned
    nSet,                 \* set_target calls so far
    nRead,                \* get_current_value calls so far
    \* ---- the updater thread running _ramp_loop ----
    r_pc,                 \* the statement of _ramp_loop it is at
    r_elapsed,            \* local elapsed of the iteration, tenths of a second
    r_progress,           \* local progress of the iteration; -1 outside the if
    \* ---- the world around the controller ----
    now,                  \* time.time(), in tenths of a second
    \* ---- SynthControl (synth_control.py:23-26) and what its caller observes ----
    max_intensity,        \* self.max_intensity               (fixed-point)
    synth_op,             \* the SynthControl method that ran last
    synth_arg,            \* its first numeric argument: the value, the wind
                          \* speed, the direction, the temperature or the
                          \* lfo_number                       (fixed-point)
    synth_ret,            \* what it returned; -1 for None or an exception
    synth_outcome,        \* "ok" or "raised:<exception>"
    dispatched,           \* the messages that call handed to amidi, in order
    prev_op,              \* the call before it: method,
    prev_arg,             \* argument
    prev_ret,             \* and returned value
    \* ---- monitor_ws2000.WS2000Monitor.get_latest_reading (monitor_ws2000.py:31-138) ----
    shot_pc,              \* the statement of the call the caller is at
    shot_child,           \* the rtl_433 child of the call: "none", "running",
                          \* "hung" (alive, ignores SIGTERM), "exited"
    shot_stdout,          \* lines the child has written and nobody has read
    shot_line,            \* local line: <<>> before readline, else <<line>>
    shot_ret,             \* the value of the return statement that is leaving
                          \* through the finally block: <<>> or <<dict>>
    shot_result,          \* what the last call returned: <<>> or <<dict>>
    nShots,               \* get_latest_reading calls so far
    \* ---- monitor_ws2000_fixed.WS2000Monitor.start_monitoring ----
    fx_pc,                \* the statement of the generator the caller is at
    fx_reading,           \* local reading: <<>> (None) or <<wind_speed>>
    fx_records,           \* the records yielded so far, in order
    fx_iter,              \* iterations of the while loop begun so far
    fx_entry,             \* <<wind_buffer, last_value, target_value>> at the
                          \* top of the current iteration
    \* ---- smooth_monitor.SmoothValue shared by two threads ----
    sv_current,           \* self.current                    (exact, in SvUnit)
    sv_target,            \* self.target
    sv_step_size,         \* self.step_size
    sv_set_pc,            \* main thread: the step of set_target it is at
    sv_new_target,        \* its argument new_target
    sv_set_current,       \* the self.current it loaded for the subtraction
    sv_up_pc,             \* interpolation thread: the step of update it is at
    sv_up_current,        \* the self.current it loaded for +=
    sv_up_step,           \* the self.step_size it loaded for +=
    sv_up_near,           \* the abs(self.current - self.target) it computed
    sv_updates,           \* update calls begun and finished since the last
                          \* set_target returned
    nTargets              \* set_target calls so far

smootherVars == <<buffer_size, max_wind_mph, interpolation_steps, smoothing_type,
                  response_speed, wind_buffer, maxlen, last_value, target_value,
                  current_step>>
callerVars == <<op, smoothed_out, normalized_out, step_at_call, gets_since_add,
                added, outcome, nGet, nCfg>>
monitorVars == <<process, last_reading, pc, after, line, wind_speed, child, stdout,
                 records, elapsed, nChecks, checks_failed, ever_present, nSpawns,
                 nLines, slept_since_exit, slept_since_error, read_lines, iteration,
                 tick_out, interrupted>>
rampVars == <<ramp_duration, update_rate, ramp_current_value, ramp_target_value,
              ramp_start_value, ramp_start_time, is_ramping, running, lock, m_pc,
              new_target, returned, nSet, nRead, r_pc, r_elapsed, r_progress, now>>
synthVars == <<max_intensity, synth_op, synth_arg, synth_ret, synth_outcome,
               dispatched, prev_op, prev_arg, prev_ret>>
shotVars == <<shot_pc, shot_child, shot_stdout, shot_line, shot_ret, shot_result, nShots>>
fixedVars == <<fx_pc, fx_reading, fx_records, fx_iter, fx_entry>>
svVars == <<sv_current, sv_target, sv_step_size, sv_set_pc, sv_new_target,
            sv_set_current, sv_up_pc, sv_up_current, sv_up_step, sv_up_near,
            sv_updates, nTargets>>
(* the components of src/ outside src/src and src/examples *)
auxVars == <<shotVars, fixedVars, svVars>>
vars == <<smootherVars, callerVars, monitorVars, rampVars, synthVars, auxVars>>

---------------------------------------------------------------------------
(* Bounds of the exploration *)

MaxAdds == 2       \* add_wind_reading calls in one behaviour
MaxGets == 4       \* get_smoothed_value / get_normalized_value calls
MaxCfg  == 1       \* set_smoothing_profile / set_custom_parameters calls

(* Fixed-point scale: Unit steps per 1.0 *)
Unit == 10 * 100

Min(a, b) == IF a < b THEN a ELSE b
Max(a, b) == IF a > b THEN a ELSE b

(* Samples handed to add_wind_reading, in mph: non-negative, one of them     *)
(* above every max_wind_mph in use.                                          *)
Samples == {6 * Unit, 30 * Unit}

SmoothingTypes == {"linear", "exponential", "gaussian"}

(* Constructor arguments WindSmoother(buffer_size, max_wind_mph,             *)
(* interpolation_steps, smoothing_type, response_speed) the model starts     *)
(* from; buffer_size, max_wind_mph and response_speed are the defaults' kind. *)
(* __init__ checks none of them, so max_wind_mph=0 constructs as well.        *)
ConstructorArgs ==
    { [buffer_size |-> b, max_wind_mph |-> 20 * Unit, interpolation_steps |-> s,
       smoothing_type |-> t, response_speed |-> r] :
         b \in {1, 2}, s \in {2}, t \in SmoothingTypes,
         r \in {Unit \div 2} }
    \cup
    { [buffer_size |-> 1, max_wind_mph |-> 0, interpolation_steps |-> 2,
       smoothing_type |-> "linear", response_speed |-> Unit \div 2] }

(* self.smoothing_profiles *)
smoothing_profiles ==
    [ responsive |-> [buffer_size |-> 3,  interpolation_steps |-> 50,
                      response_speed |-> (8 * Unit) \div 10],
      balanced   |-> [buffer_size |-> 8,  interpolation_steps |-> 100,
                      response_speed |-> (5 * Unit) \div 10],
      smooth     |-> [buffer_size |-> 15, interpolation_steps |-> 200,
                      response_speed |-> (3 * Unit) \div 10],
      ambient    |-> [buffer_size |-> 20, interpolation_steps |-> 300,
                      response_speed |-> (2 * Unit) \div 10] ]

(* Names passed to set_smoothing_profile: the four profiles and one unknown *)
ProfileNames == DOMAIN smoothing_profiles \cup {"stormy"}

(* Keyword arguments passed to set_custom_parameters; <<>> is None *)
CustomArgs ==
    { [buffer_size |-> <<1>>, interpolation_steps |-> <<1>>, response_speed |-> <<>>,
       smoothing_type |-> <<>>],
      [buffer_size |-> <<3>>, interpolation_steps |-> <<>>,  response_speed |-> <<2 * Unit>>,
       smoothing_type |-> <<"exponential">>] }

---------------------------------------------------------------------------
(* Arithmetic helpers *)

RECURSIVE SumSeq(_)
SumSeq(s) == IF s = <<>> THEN 0 ELSE Head(s) + SumSeq(Tail(s))

(* max(0.1, min(1.0, response_speed)) *)
ClampResponse(r) == Max(Unit \div 10, Min(Unit, r))

(* e^x for fixed-point x >= 0: the power series, summed until a term rounds to 0 *)
RECURSIVE ExpSeries(_, _, _)
ExpSeries(x, k, term) ==
    IF term = 0 THEN 0
    ELSE term + ExpSeries(x, k + 1, (term * x) \div (k * Unit))

(* np.exp(-x) for fixed-point x >= 0 *)
ExpNeg(x) == (Unit * Unit) \div ExpSeries(x, 1, Unit)

(* deque.append on a deque with the given maxlen: a full deque drops its oldest *)
DequeAppend(buf, cap, x) ==
    IF cap = 0 THEN <<>>
    ELSE IF Len(buf) >= cap THEN Append(Tail(buf), x)
    ELSE Append(buf, x)

PopRightUntil(buf, size) == IF Len(buf) > size THEN SubSeq(buf, 1, size) ELSE buf

(* while len(buf) > size: buf.popleft() *)
RECURSIVE PopLeftUntil(_, _)
PopLeftUntil(buf, size) ==
    IF Len(buf) > size THEN PopLeftUntil(Tail(buf), size) ELSE buf


---------------------------------------------------------------------------
(* WindSmoother: the target of add_wind_reading *)

(* weights = np.exp(-0.5 * ((np.arange(n) - n/2) / (n/4))**2), before they   *)
(* are normalised; index 1 is the oldest sample (np.arange gives i - 1)      *)
GaussianWeights(n) ==
    [ i \in 1..n |->
        LET d  == (((i - 1) * Unit - (n * Unit) \div 2) * Unit) \div ((n * Unit) \div 4)
            sq == (d * d) \div Unit
        IN  ExpNeg(sq \div 2) ]

(* np.average(list(buf), weights=weights / np.sum(weights)) *)
GaussianAverage(buf) ==
    LET n == Len(buf)
        w == GaussianWeights(n)
    IN  SumSeq([i \in 1..n |-> buf[i] * w[i]]) \div SumSeq(w)

(* alpha * wind_mph + (1 - alpha) * self.target_value, alpha = 2.0 / (len + 1) *)
ExponentialAverageStale(buf, wind_mph, target) ==
    LET alpha == (2 * Unit) \div Len(buf)
    IN  (alpha * wind_mph + (Unit - alpha) * target) \div Unit

ExponentialAverage(buf, wind_mph, target) ==
    LET alpha == (2 * Unit) \div (Len(buf) + 1)
    IN  (alpha * wind_mph + (Unit - alpha) * target) \div Unit

(* np.mean(self.wind_buffer) *)
Mean(buf) == SumSeq(buf) \div Len(buf)

(* the if / elif / else of add_wind_reading that computes self.target_value *)
TargetOf(buf, wind_mph, target, type) ==
    CASE type = "gaussian"    -> GaussianAverage(buf)
      [] type = "exponential" -> ExponentialAverage(buf, wind_mph, target)
      [] OTHER                -> Mean(buf)

---------------------------------------------------------------------------
(* WindSmoother.get_smoothed_value, as a function of the fields it reads *)

(* adjusted_steps = int(self.interpolation_steps / self.response_speed) *)
AdjustedSteps(steps, rs) == (steps * Unit) \div rs

(* the interpolation curves, applied to progress = current_step / adjusted_steps *)
ShapedProgress(progress, type) ==
    CASE type = "exponential" -> Unit - ((Unit - progress) * (Unit - progress)) \div Unit
      [] type = "gaussian"    -> Unit - ExpNeg(4 * progress)
      [] OTHER                -> progress

(* progress = max(0, min(1, progress)) *)
ClampProgress(progress) == Max(0, Min(Unit, progress))

(* Interpolate, started from the wrong endpoint *)
InterpolateFromTarget(last, target, progress) ==
    target + ((target - last) * progress) \div Unit

(* smoothed = self.last_value + (self.target_value - self.last_value) * progress *)
Interpolate(last, target, progress) == last + ((target - last) * progress) \div Unit

(* SmoothedValue without the early return of the terminal state *)
SmoothedValueNoTerminal(last, target, step, steps, rs, type) ==
    Interpolate(last, target,
        ClampProgress(ShapedProgress((step * Unit) \div AdjustedSteps(steps, rs), type)))

(* the value get_smoothed_value returns *)
SmoothedValue(last, target, step, steps, rs, type) ==
    IF step >= steps THEN target
    ELSE Interpolate(last, target,
            ClampProgress(ShapedProgress((step * Unit) \div AdjustedSteps(steps, rs), type)))

SteppedToWrapping(step, steps) == IF step >= steps THEN 0 ELSE step + 1

(* the value get_smoothed_value leaves in self.current_step *)
SteppedTo(step, steps) ==
    IF step >= steps THEN step ELSE Min(step + 1, steps)

---------------------------------------------------------------------------
(* WindSmoother: the operations on the fields *)

(* WindSmoother.__init__ *)
InitSmoother(a) ==
    /\ buffer_size = a.buffer_size
    /\ max_wind_mph = a.max_wind_mph
    /\ interpolation_steps = a.interpolation_steps
    /\ smoothing_type = a.smoothing_type
    /\ response_speed = ClampResponse(a.response_speed)
    /\ wind_buffer = <<>>
    /\ maxlen = a.buffer_size
    /\ last_value = 0
    /\ target_value = 0
    /\ current_step = 0

(* the fields after set_smoothing_profile(profile_name) *)
ProfileBufferSize(name) ==
    IF name \in DOMAIN smoothing_profiles
    THEN smoothing_profiles[name].buffer_size ELSE buffer_size

(* SetProfileFields with a fallback: a name that is no key of                *)
(* smoothing_profiles is treated as 'balanced'                               *)
SetProfileFieldsDefaulting(profile_name) ==
    LET p == IF profile_name \in DOMAIN smoothing_profiles
             THEN smoothing_profiles[profile_name] ELSE smoothing_profiles["balanced"]
    IN  /\ buffer_size' = p.buffer_size
        /\ interpolation_steps' = p.interpolation_steps
        /\ response_speed' = p.response_speed
        /\ wind_buffer' = PopLeftUntil(wind_buffer, p.buffer_size)
        /\ UNCHANGED <<max_wind_mph, smoothing_type, maxlen, last_value, target_value,
                       current_step>>

SetProfileFields(profile_name) ==
    IF profile_name \in DOMAIN smoothing_profiles
    THEN /\ buffer_size' = ProfileBufferSize(profile_name)
         /\ interpolation_steps' = smoothing_profiles[profile_name].interpolation_steps
         /\ response_speed' = smoothing_profiles[profile_name].response_speed
         /\ wind_buffer' = PopLeftUntil(wind_buffer, ProfileBufferSize(profile_name))
         /\ UNCHANGED <<max_wind_mph, smoothing_type, maxlen, last_value, target_value,
                        current_step>>
    ELSE UNCHANGED smootherVars

SetCustomFieldsRestarting(a) ==
    /\ buffer_size' = IF a.buffer_size # <<>> THEN a.buffer_size[1] ELSE buffer_size
    /\ interpolation_steps' = IF a.interpolation_steps # <<>>
                              THEN a.interpolation_steps[1] ELSE interpolation_steps
    /\ response_speed' = IF a.response_speed # <<>>
                         THEN ClampResponse(a.response_speed[1]) ELSE response_speed
    /\ smoothing_type' = IF a.smoothing_type # <<>>
                         THEN a.smoothing_type[1] ELSE smoothing_type
    /\ current_step' = 0
    /\ UNCHANGED <<max_wind_mph, wind_buffer, maxlen, last_value, target_value>>

(* the fields after set_custom_parameters with keyword arguments a *)
SetCustomFields(a) ==
    /\ buffer_size' = IF a.buffer_size # <<>> THEN a.buffer_size[1] ELSE buffer_size
    /\ interpolation_steps' = IF a.interpolation_steps # <<>>
                              THEN a.interpolation_steps[1] ELSE interpolation_steps
    /\ response_speed' = IF a.response_speed # <<>>
                         THEN ClampResponse(a.response_speed[1]) ELSE response_speed
    /\ smoothing_type' = IF a.smoothing_type # <<>>
                         THEN a.smoothing_type[1] ELSE smoothing_type
    /\ UNCHANGED <<max_wind_mph, wind_buffer, maxlen, last_value, target_value,
                   current_step>>

(* the fields after add_wind_reading(wind_mph); its call of                  *)
(* get_smoothed_value reads the target_value assigned just before it         *)
AddFields(wind_mph) ==
    LET buf == DequeAppend(wind_buffer, maxlen, Min(wind_mph, max_wind_mph))
        tgt == TargetOf(buf, wind_mph, target_value, smoothing_type)
    IN  /\ wind_buffer' = buf
        /\ target_value' = tgt
        /\ last_value' = SmoothedValue(last_value, tgt, current_step,
                                       interpolation_steps, response_speed, smoothing_type)
        /\ current_step' = 0
        /\ UNCHANGED <<buffer_size, max_wind_mph, interpolation_steps, smoothing_type,
                       response_speed, maxlen>>

(* the value get_smoothed_value returns in the current state *)
Smoothed == SmoothedValue(last_value, target_value, current_step,
                          interpolation_steps, response_speed, smoothing_type)

(* the fields after get_smoothed_value() *)
GetFields ==
    /\ current_step' = SteppedTo(current_step, interpolation_steps)
    /\ UNCHANGED <<buffer_size, max_wind_mph, interpolation_steps, smoothing_type,
                   response_speed, wind_buffer, maxlen, last_value, target_value>>

---------------------------------------------------------------------------
(* A caller that drives one WindSmoother *)

(* no get_latest_reading of monitor_ws2000 has been called *)
ShotNotStarted ==
    /\ shot_pc = "idle"
    /\ shot_child = "none"
    /\ shot_stdout = <<>>
    /\ shot_line = <<>>
    /\ shot_ret = <<>>
    /\ shot_result = <<>>
    /\ nShots = 0

(* no start_monitoring of monitor_ws2000_fixed has been called *)
FixedNotStarted ==
    /\ fx_pc = "unstarted"
    /\ fx_reading = <<>>
    /\ fx_records = <<>>
    /\ fx_iter = 0
    /\ fx_entry = <<>>

(* no SmoothValue has been constructed *)
SmoothValueNotStarted ==
    /\ sv_current = 0
    /\ sv_target = 0
    /\ sv_step_size = 0
    /\ sv_set_pc = "unstarted"
    /\ sv_new_target = 0
    /\ sv_set_current = 0
    /\ sv_up_pc = "unstarted"
    /\ sv_up_current = 0
    /\ sv_up_step = 0
    /\ sv_up_near = 0
    /\ sv_updates = 0
    /\ nTargets = 0

AuxNotStarted == ShotNotStarted /\ FixedNotStarted /\ SmoothValueNotStarted

(* no SynthControl has been constructed *)
SynthNotStarted ==
    /\ max_intensity = 0
    /\ synth_op = "none"
    /\ synth_arg = 0
    /\ synth_ret = -1
    /\ synth_outcome = "ok"
    /\ dispatched = <<>>
    /\ prev_op = "none"
    /\ prev_arg = 0
    /\ prev_ret = -1

(* no SmoothRampController has been constructed *)
RampNotStarted ==
    /\ ramp_duration = 0
    /\ update_rate = 0
    /\ ramp_current_value = 0
    /\ ramp_target_value = 0
    /\ ramp_start_value = 0
    /\ ramp_start_time = <<>>
    /\ is_ramping = FALSE
    /\ running = FALSE
    /\ lock = "free"
    /\ m_pc = "idle"
    /\ new_target = 0
    /\ returned = 0
    /\ nSet = 0
    /\ nRead = 0
    /\ r_pc = "unstarted"
    /\ r_elapsed = 0
    /\ r_progress = -1
    /\ now = 1

(* WS2000Monitor.__init__, and start_monitoring at its first statement *)
MonitorNotStarted ==
    /\ process = "None"
    /\ last_reading = <<>>
    /\ pc = "check_device"
    /\ after = "loop"
    /\ line = <<>>
    /\ wind_speed = 0
    /\ child = "none"
    /\ stdout = <<>>
    /\ records = <<>>
    /\ elapsed = 0
    /\ nChecks = 0
    /\ checks_failed = 0
    /\ ever_present = FALSE
    /\ nSpawns = 0
    /\ nLines = 0
    /\ slept_since_exit = "n/a"
    /\ slept_since_error = "n/a"
    /\ read_lines = <<>>
    /\ iteration = <<>>
    /\ tick_out = "none"
    /\ interrupted = FALSE

Init ==
    /\ \E a \in ConstructorArgs : InitSmoother(a)
    /\ AuxNotStarted
    /\ op = "__init__"
    /\ smoothed_out = 0
    /\ normalized_out = 0
    /\ step_at_call = 0
    /\ gets_since_add = -1
    /\ added = <<>>
    /\ outcome = "ok"
    /\ nGet = 0
    /\ nCfg = 0
    /\ MonitorNotStarted
    /\ RampNotStarted
    /\ SynthNotStarted

(* a call that returns None: the caller holds no returned value after it *)
NoReturn ==
    /\ smoothed_out' = 0
    /\ normalized_out' = 0
    /\ step_at_call' = 0

set_smoothing_profile ==
    /\ UNCHANGED <<monitorVars, rampVars, synthVars, auxVars>>
    /\ nCfg < MaxCfg
    /\ \E name \in ProfileNames :
          /\ SetProfileFields(name)
          /\ op' = IF name \in DOMAIN smoothing_profiles
                   THEN "set_smoothing_profile" ELSE "set_smoothing_profile:unknown"
          /\ gets_since_add' = IF name \in DOMAIN smoothing_profiles
                               THEN -1 ELSE gets_since_add
          /\ outcome' = IF name \in DOMAIN smoothing_profiles
                        THEN "ok" ELSE "printed:Unknown profile"
    /\ nCfg' = nCfg + 1
    /\ NoReturn
    /\ UNCHANGED <<added, nGet>>

set_custom_parameters ==
    /\ UNCHANGED <<monitorVars, rampVars, synthVars, auxVars>>
    /\ nCfg < MaxCfg
    /\ \E a \in CustomArgs : SetCustomFields(a)
    /\ op' = "set_custom_parameters"
    /\ outcome' = "ok"
    /\ gets_since_add' = -1
    /\ nCfg' = nCfg + 1
    /\ NoReturn
    /\ UNCHANGED <<added, nGet>>

AddWindReading(samples, limit) ==
    /\ UNCHANGED <<monitorVars, rampVars, synthVars, auxVars>>
    /\ Len(added) < limit
    /\ \E wind_mph \in samples :
          /\ AddFields(wind_mph)
          /\ added' = Append(added, wind_mph)
    /\ op' = "add_wind_reading"
    /\ outcome' = "ok"
    /\ gets_since_add' = 0
    /\ NoReturn
    /\ UNCHANGED <<nGet, nCfg>>

add_wind_reading == AddWindReading(Samples, MaxAdds)

get_smoothed_value ==
    /\ UNCHANGED <<monitorVars, rampVars, synthVars, auxVars>>
    /\ nGet < MaxGets
    /\ GetFields
    /\ op' = "get_smoothed_value"
    /\ outcome' = "ok"
    /\ smoothed_out' = Smoothed
    /\ step_at_call' = current_step
    /\ gets_since_add' = IF gets_since_add >= 0 THEN gets_since_add + 1 ELSE -1
    /\ normalized_out' = 0
    /\ nGet' = nGet + 1
    /\ UNCHANGED <<added, nCfg>>

(* return self.get_smoothed_value() / self.max_wind_mph: the division raises *)
(* ZeroDivisionError after get_smoothed_value has advanced the step, and the *)
(* caller gets no value                                                      *)
get_normalized_value ==
    /\ UNCHANGED <<monitorVars, rampVars, synthVars, auxVars>>
    /\ nGet < MaxGets
    /\ GetFields
    /\ op' = "get_normalized_value"
    /\ smoothed_out' = Smoothed
    /\ IF max_wind_mph = 0
       THEN /\ outcome' = "raised:ZeroDivisionError"
            /\ normalized_out' = 0
       ELSE /\ outcome' = "ok"
            /\ normalized_out' = (Smoothed * Unit) \div max_wind_mph
    /\ step_at_call' = current_step
    /\ gets_since_add' = IF gets_since_add >= 0 THEN gets_since_add + 1 ELSE -1
    /\ nGet' = nGet + 1
    /\ UNCHANGED <<added, nCfg>>

Next ==
    \/ set_smoothing_profile
    \/ set_custom_parameters
    \/ add_wind_reading
    \/ get_smoothed_value
    \/ get_normalized_value

Spec == Init /\ [][Next]_vars

(* the caller of Spec does not run beside the monitor *)
CallerUnused ==
    /\ op = "__init__"
    /\ smoothed_out = 0
    /\ normalized_out = 0
    /\ step_at_call = 0
    /\ gets_since_add = -1
    /\ added = <<>>
    /\ outcome = "ok"
    /\ nGet = 0
    /\ nCfg = 0

(* A smoother with room for more samples than the smallest profile keeps:    *)
(* it is filled sample by sample and reconfigured on the way.                *)
MaxFill == 5

(* the samples of the exponential scenario, 4.0 and 8.0 MPH, and one above  *)
(* max_wind_mph                                                              *)
FillSamples == {4 * Unit, 8 * Unit, 30 * Unit}

FillArgs ==
    { [buffer_size |-> 5, max_wind_mph |-> 20 * Unit, interpolation_steps |-> 2,
       smoothing_type |-> t, response_speed |-> Unit \div 2] :
         t \in {"linear", "exponential"} }

ProfileInit ==
    /\ \E a \in FillArgs : InitSmoother(a)
    /\ AuxNotStarted
    /\ CallerUnused
    /\ MonitorNotStarted
    /\ RampNotStarted
    /\ SynthNotStarted

add_wind_readings == AddWindReading(FillSamples, MaxFill)

ProfileNext ==
    \/ add_wind_readings
    \/ set_smoothing_profile
    \/ set_custom_parameters

SpecProfile == ProfileInit /\ [][ProfileNext]_vars


---------------------------------------------------------------------------
(* WS2000Monitor.start_monitoring (src/src/monitor.py), a generator, with   *)
(* the rtl_433 child it supervises and the consumer that iterates it        *)

MaxChecks == 3     \* check_device calls of the outer loop in one behaviour
MaxLines  == 2     \* lines written by the children in one behaviour

(* time.sleep(5) and time.sleep(0.1), in tenths of a second *)
BackoffTenths == 50
IdleTenths == 1

(* wind_avg_m_s * 2.23694 *)
MsToMph(ms) == (ms * ((223694 * Unit) \div 100000)) \div Unit

(* What a child can write on one line of its standard output: text that is   *)
(* not JSON, JSON that is not an object, an object of another model, an      *)
(* object without a model key (data.get('model') is None, written ""), and   *)
(* Fineoffset-WH24 objects with wind_avg_m_s 2.0 and 10.0                    *)
DecoderLines ==
    { [json |-> FALSE, object |-> FALSE, model |-> "", wind_avg_m_s |-> 0],
      [json |-> TRUE,  object |-> FALSE, model |-> "", wind_avg_m_s |-> 0],
      [json |-> TRUE,  object |-> TRUE,  model |-> "Acurite-Tower", wind_avg_m_s |-> 3 * Unit],
      [json |-> TRUE,  object |-> TRUE,  model |-> "", wind_avg_m_s |-> 3 * Unit],
      [json |-> TRUE,  object |-> TRUE,  model |-> "Fineoffset-WH24", wind_avg_m_s |-> 2 * Unit],
      [json |-> TRUE,  object |-> TRUE,  model |-> "Fineoffset-WH24", wind_avg_m_s |-> 10 * Unit] }

(* the smoothing_profile argument of WS2000Monitor(...) *)
MonitorProfiles == {"balanced"}

(* the arguments of the WindSmoother() call in WS2000Monitor.__init__ *)
DefaultArgs ==
    [buffer_size |-> 10, max_wind_mph |-> 20 * Unit, interpolation_steps |-> 150,
     smoothing_type |-> "linear", response_speed |-> Unit \div 2]

(* WS2000Monitor.__init__: WindSmoother(), then set_smoothing_profile on the *)
(* still empty smoother                                                      *)
InitMonitorSmoother(profile_name) ==
    LET known == profile_name \in DOMAIN smoothing_profiles
    IN  /\ buffer_size = IF known THEN smoothing_profiles[profile_name].buffer_size
                         ELSE DefaultArgs.buffer_size
        /\ interpolation_steps = IF known
                                 THEN smoothing_profiles[profile_name].interpolation_steps
                                 ELSE DefaultArgs.interpolation_steps
        /\ response_speed = IF known THEN smoothing_profiles[profile_name].response_speed
                            ELSE ClampResponse(DefaultArgs.response_speed)
        /\ max_wind_mph = DefaultArgs.max_wind_mph
        /\ smoothing_type = DefaultArgs.smoothing_type
        /\ wind_buffer = <<>>
        /\ maxlen = DefaultArgs.buffer_size
        /\ last_value = 0
        /\ target_value = 0
        /\ current_step = 0

MonitorInit ==
    /\ \E p \in MonitorProfiles : InitMonitorSmoother(p)
    /\ AuxNotStarted
    /\ MonitorNotStarted
    /\ CallerUnused
    /\ RampNotStarted
    /\ SynthNotStarted

(* what no step of the monitor changes *)
monitorFrame == <<callerVars, rampVars, synthVars, auxVars>>

(* CheckDevice without the test of its result: it goes on to spawn either way *)
CheckDeviceSpawnsAnyway ==
    /\ pc = "check_device"
    /\ nChecks < MaxChecks
    /\ nChecks' = nChecks + 1
    /\ \E present \in BOOLEAN :
          /\ pc' = "spawn"
          /\ ever_present' = (ever_present \/ present)
          /\ checks_failed' = IF present THEN checks_failed ELSE checks_failed + 1
    /\ UNCHANGED <<smootherVars, monitorFrame, iteration, process, last_reading, after, line,
                   slept_since_error, read_lines,
                   wind_speed, child, stdout, records, elapsed, nSpawns, nLines,
                   slept_since_exit, tick_out, interrupted>>

(* line 31: if not self.check_device(); what lsusb reports is the world's choice *)
CheckDevice ==
    /\ pc = "check_device"
    /\ nChecks < MaxChecks
    /\ nChecks' = nChecks + 1
    /\ \E present \in BOOLEAN :
          IF present
          THEN /\ pc' = "spawn"
               /\ ever_present' = TRUE
               /\ UNCHANGED checks_failed
          ELSE /\ pc' = "backoff"
               /\ checks_failed' = checks_failed + 1
               /\ UNCHANGED ever_present
    /\ UNCHANGED <<smootherVars, monitorFrame, iteration, process, last_reading, after, line,
                   slept_since_error, read_lines,
                   wind_speed, child, stdout, records, elapsed, nSpawns, nLines,
                   slept_since_exit, tick_out, interrupted>>

(* lines 33-34: time.sleep(5); continue, which leaves the try through finally *)
Backoff ==
    /\ pc = "backoff"
    /\ elapsed' = elapsed + BackoffTenths
    /\ slept_since_exit' = IF slept_since_exit = "no" THEN "yes" ELSE slept_since_exit
    /\ slept_since_error' = IF slept_since_error = "no" THEN "yes" ELSE slept_since_error
    /\ pc' = "finally"
    /\ after' = "loop"
    /\ UNCHANGED <<smootherVars, monitorFrame, iteration, process, last_reading, line, wind_speed,
                   read_lines,
                   child, stdout, records, nChecks, checks_failed, ever_present,
                   nSpawns, nLines, tick_out, interrupted>>

(* lines 53-58: self.process = subprocess.Popen(...), which may raise (no     *)
(* rtl_433 executable) and then leaves self.process as it was                *)
Spawn ==
    /\ pc = "spawn"
    /\ \E raised \in BOOLEAN :
          IF raised
          THEN /\ pc' = "except_sleep"
               /\ slept_since_error' = "no"
               /\ UNCHANGED <<process, child, stdout, nSpawns, slept_since_exit>>
          ELSE /\ process' = "Popen"
               /\ child' = "running"
               /\ stdout' = <<>>
               /\ nSpawns' = nSpawns + 1
               /\ slept_since_exit' = "n/a"
               /\ slept_since_error' = "n/a"
               /\ pc' = "poll"
    /\ UNCHANGED <<smootherVars, monitorFrame, iteration, last_reading, after, line, wind_speed,
                   read_lines,
                   records, elapsed, nChecks, checks_failed, ever_present, nLines,
                   tick_out, interrupted>>

(* lines 127-129: except Exception: time.sleep(5), then finally *)
ExceptSleep ==
    /\ pc = "except_sleep"
    /\ elapsed' = elapsed + BackoffTenths
    /\ slept_since_exit' = IF slept_since_exit = "no" THEN "yes" ELSE slept_since_exit
    /\ slept_since_error' = IF slept_since_error = "no" THEN "yes" ELSE slept_since_error
    /\ pc' = "finally"
    /\ after' = "loop"
    /\ UNCHANGED <<smootherVars, monitorFrame, iteration, process, last_reading, line, wind_speed,
                   read_lines,
                   child, stdout, records, nChecks, checks_failed, ever_present,
                   nSpawns, nLines, tick_out, interrupted>>

(* lines 66-68: if self.process.poll() is not None: break *)
Poll ==
    /\ pc = "poll"
    /\ iteration' = <<IF child = "exited" THEN "poll:exited" ELSE "poll:alive">>
    /\ IF child = "exited"
       THEN /\ pc' = "finally"
            /\ after' = "loop"
            /\ slept_since_exit' = "no"
       ELSE /\ pc' = "inner_check"
            /\ UNCHANGED <<after, slept_since_exit>>
    /\ UNCHANGED <<smootherVars, monitorFrame, process, last_reading, line, wind_speed,
                   slept_since_error, read_lines,
                   child, stdout, records, elapsed, nChecks, checks_failed,
                   ever_present, nSpawns, nLines, tick_out, interrupted>>

(* InnerCheck without the break of line 73: the loop goes on to readline *)
InnerCheckReadsAnyway ==
    /\ pc = "inner_check"
    /\ \E present \in BOOLEAN :
          /\ pc' = "readline"
          /\ iteration' = Append(iteration, IF present THEN "device:present"
                                                       ELSE "device:absent")
    /\ UNCHANGED <<smootherVars, monitorFrame, process, last_reading, after, line,
                   wind_speed, slept_since_error, read_lines,
                   child, stdout, records, elapsed, nChecks, checks_failed,
                   ever_present, nSpawns, nLines, slept_since_exit, tick_out,
                   interrupted>>

(* lines 71-73: if not self.check_device(): break *)
InnerCheck ==
    /\ pc = "inner_check"
    /\ \E present \in BOOLEAN :
          IF present
          THEN /\ pc' = "readline"
               /\ iteration' = Append(iteration, "device:present")
               /\ UNCHANGED after
          ELSE /\ pc' = "finally"
               /\ iteration' = Append(iteration, "device:absent")
               /\ after' = "loop"
    /\ UNCHANGED <<smootherVars, monitorFrame, process, last_reading, line, wind_speed,
                   slept_since_error, read_lines,
                   child, stdout, records, elapsed, nChecks, checks_failed,
                   ever_present, nSpawns, nLines, slept_since_exit, tick_out,
                   interrupted>>

(* lines 77-78 and 116: line = self.process.stdout.readline(), which returns  *)
(* a written line, '' once the child has exited and the pipe is drained, and  *)
(* does not return while a live child writes nothing                          *)
Readline ==
    /\ pc = "readline"
    /\ iteration' = Append(iteration, "readline")
    /\ \/ /\ stdout # <<>>
          /\ line' = <<Head(stdout)>>
          /\ stdout' = Tail(stdout)
          /\ read_lines' = Append(read_lines, Head(stdout))
          /\ pc' = "parse"
       \/ /\ stdout = <<>>
          /\ child = "exited"
          /\ line' = <<>>
          /\ pc' = "idle_sleep"
          /\ UNCHANGED <<stdout, read_lines>>
    /\ UNCHANGED <<smootherVars, monitorFrame, process, last_reading, after, wind_speed,
                   slept_since_error,
                   child, records, elapsed, nChecks, checks_failed, ever_present,
                   nSpawns, nLines, slept_since_exit, tick_out, interrupted>>

(* Parse without the model test of line 83: every JSON object is converted   *)
(* and handed to the smoother                                                *)
ParseAnyModel ==
    /\ pc = "parse"
    /\ iteration' = Append(iteration, "parse")
    /\ LET data == line[1]
       IN  IF ~data.json
           THEN /\ pc' = "poll"
                /\ tick_out' = "discarded"
                /\ UNCHANGED <<after, wind_speed, slept_since_error>>
           ELSE IF ~data.object
           THEN /\ pc' = "finally"
                /\ after' = "loop"
                /\ slept_since_error' = "no"
                /\ UNCHANGED <<tick_out, wind_speed>>
           ELSE /\ wind_speed' = MsToMph(data.wind_avg_m_s)
                /\ pc' = "add"
                /\ UNCHANGED <<after, tick_out, slept_since_error>>
    /\ UNCHANGED <<smootherVars, monitorFrame, read_lines, process, last_reading, line,
                   child, stdout, records, elapsed, nChecks, checks_failed,
                   ever_present, nSpawns, nLines, slept_since_exit, interrupted>>

(* lines 79-88 and 113-122: json.loads, the model test and the conversion.    *)
(* json.JSONDecodeError continues the inner loop; data.get on a value that is *)
(* no dict raises AttributeError, caught by except Exception, which breaks    *)
Parse ==
    /\ pc = "parse"
    /\ iteration' = Append(iteration, "parse")
    /\ LET data == line[1]
       IN  IF ~data.json
           THEN /\ pc' = "poll"
                /\ tick_out' = "discarded"
                /\ UNCHANGED <<after, wind_speed, slept_since_error>>
           ELSE IF ~data.object
           THEN /\ pc' = "finally"
                /\ after' = "loop"
                /\ slept_since_error' = "no"
                /\ UNCHANGED <<tick_out, wind_speed>>
           ELSE IF data.model = "Fineoffset-WH24"
           THEN /\ wind_speed' = MsToMph(data.wind_avg_m_s)
                /\ pc' = "add"
                /\ UNCHANGED <<after, tick_out, slept_since_error>>
           ELSE /\ pc' = "poll"
                /\ tick_out' = "discarded"
                /\ UNCHANGED <<after, wind_speed, slept_since_error>>
    /\ UNCHANGED <<smootherVars, monitorFrame, process, last_reading, line, child,
                   read_lines,
                   stdout, records, elapsed, nChecks, checks_failed, ever_present,
                   nSpawns, nLines, slept_since_exit, interrupted>>

(* AddReading without the call of line 91: the sample is not folded *)
AddReadingSkipped ==
    /\ pc = "add"
    /\ pc' = "normalize"
    /\ UNCHANGED <<smootherVars, monitorFrame, iteration, slept_since_error, read_lines, process,
                   last_reading, after, line, wind_speed, child, stdout, records,
                   elapsed, nChecks, checks_failed, ever_present, nSpawns, nLines,
                   slept_since_exit, tick_out, interrupted>>

(* line 91: self.wind_smoother.add_wind_reading(wind_speed) *)
AddReading ==
    /\ pc = "add"
    /\ AddFields(wind_speed)
    /\ pc' = "normalize"
    /\ UNCHANGED <<monitorFrame, iteration, process, last_reading, after, line, wind_speed, child,
                   slept_since_error, read_lines,
                   stdout, records, elapsed, nChecks, checks_failed, ever_present,
                   nSpawns, nLines, slept_since_exit, tick_out, interrupted>>

(* lines 92-103: smooth_speed = self.wind_smoother.get_normalized_value(),    *)
(* then yield: the generator is suspended and the consumer holds the record   *)
YieldRecord ==
    /\ pc = "normalize"
    /\ GetFields
    /\ records' = Append(records, [wind_speed |-> wind_speed,
                                   smooth_speed |-> (Smoothed * Unit) \div max_wind_mph])
    /\ pc' = "yielded"
    /\ UNCHANGED <<monitorFrame, iteration, process, last_reading, after, line, wind_speed, child,
                   slept_since_error, read_lines,
                   stdout, elapsed, nChecks, checks_failed, ever_present, nSpawns,
                   nLines, slept_since_exit, tick_out, interrupted>>

(* the consumer asks for the next record; lines 106-111: self.last_reading = *)
Resume ==
    /\ pc = "yielded"
    /\ last_reading' = <<[wind_speed |-> wind_speed]>>
    /\ tick_out' = "record"
    /\ pc' = "poll"
    /\ UNCHANGED <<smootherVars, monitorFrame, iteration, process, after, line, wind_speed, child,
                   slept_since_error, read_lines,
                   stdout, records, elapsed, nChecks, checks_failed, ever_present,
                   nSpawns, nLines, slept_since_exit, interrupted>>

(* the consumer closes the generator: GeneratorExit is raised at the yield,   *)
(* no except clause catches it, the finally block runs                        *)
Close ==
    /\ pc = "yielded"
    /\ pc' = "finally"
    /\ after' = "close"
    /\ UNCHANGED <<smootherVars, monitorFrame, iteration, process, last_reading, line, wind_speed,
                   slept_since_error, read_lines,
                   child, stdout, records, elapsed, nChecks, checks_failed,
                   ever_present, nSpawns, nLines, slept_since_exit, tick_out,
                   interrupted>>

(* lines 116-118: else: time.sleep(0.1) *)
IdleSleep ==
    /\ pc = "idle_sleep"
    /\ elapsed' = elapsed + IdleTenths
    /\ tick_out' = "no_line"
    /\ pc' = "poll"
    /\ UNCHANGED <<smootherVars, monitorFrame, iteration, process, last_reading, after, line,
                   slept_since_error, read_lines,
                   wind_speed, child, stdout, records, nChecks, checks_failed,
                   ever_present, nSpawns, nLines, slept_since_exit, interrupted>>

(* the statements of the try body the generator can be running *)
TryBody == {"check_device", "backoff", "spawn", "poll", "inner_check", "readline",
            "parse", "add", "normalize", "idle_sleep"}

(* lines 124-126: except KeyboardInterrupt: break, through finally.  While   *)
(* the generator is suspended at the yield the interrupt goes to the         *)
(* consumer; one raised inside a handler or the finally block propagates:    *)
(* KeyboardInterruptInTeardown                                               *)
KeyboardInterrupt ==
    /\ pc \in TryBody
    /\ interrupted' = TRUE
    /\ pc' = "finally"
    /\ after' = "stop"
    /\ UNCHANGED <<smootherVars, monitorFrame, iteration, process, last_reading, line, wind_speed,
                   slept_since_error, read_lines,
                   child, stdout, records, elapsed, nChecks, checks_failed,
                   ever_present, nSpawns, nLines, slept_since_exit, tick_out>>

(* where the generator is once the finally block is done *)
AfterFinally(why) == IF why = "loop" THEN "check_device" ELSE "done"

(* lines 130-132: finally: if self.process: self.process.terminate().  A      *)
(* running child dies of the signal, a hung one does not                     *)
FinallyTerminate ==
    /\ pc = "finally"
    /\ IF process = "None"
       THEN /\ pc' = AfterFinally(after)
            /\ UNCHANGED child
       ELSE /\ child' = IF child = "running" THEN "exited" ELSE child
            /\ pc' = "finally_wait"
    /\ UNCHANGED <<smootherVars, monitorFrame, iteration, process, last_reading, after, line,
                   slept_since_error, read_lines,
                   wind_speed, stdout, records, elapsed, nChecks, checks_failed,
                   ever_present, nSpawns, nLines, slept_since_exit, tick_out,
                   interrupted>>

(* line 133: self.process.wait(), which returns once the child has exited *)
FinallyWait ==
    /\ pc = "finally_wait"
    /\ child = "exited"
    /\ pc' = AfterFinally(after)
    /\ UNCHANGED <<smootherVars, monitorFrame, iteration, process, last_reading, after, line,
                   slept_since_error, read_lines,
                   wind_speed, child, stdout, records, elapsed, nChecks, checks_failed,
                   ever_present, nSpawns, nLines, slept_since_exit, tick_out,
                   interrupted>>

(* the rtl_433 child writes a line *)
ChildWrites ==
    /\ child = "running"
    /\ nLines < MaxLines
    /\ \E l \in DecoderLines : stdout' = Append(stdout, l)
    /\ nLines' = nLines + 1
    /\ UNCHANGED <<smootherVars, monitorFrame, iteration, process, last_reading, pc, after, line,
                   slept_since_error, read_lines,
                   wind_speed, child, records, elapsed, nChecks, checks_failed,
                   ever_present, nSpawns, slept_since_exit, tick_out, interrupted>>

(* the rtl_433 child exits on its own *)
ChildExits ==
    /\ child = "running"
    /\ child' = "exited"
    /\ UNCHANGED <<smootherVars, monitorFrame, iteration, process, last_reading, pc, after, line,
                   slept_since_error, read_lines,
                   wind_speed, stdout, records, elapsed, nChecks, checks_failed,
                   ever_present, nSpawns, nLines, slept_since_exit, tick_out,
                   interrupted>>

(* the rtl_433 child hangs: it writes nothing more and ignores SIGTERM *)
ChildHangs ==
    /\ child = "running"
    /\ child' = "hung"
    /\ UNCHANGED <<smootherVars, monitorFrame, iteration, process, last_reading, pc, after, line,
                   slept_since_error, read_lines,
                   wind_speed, stdout, records, elapsed, nChecks, checks_failed,
                   ever_present, nSpawns, nLines, slept_since_exit, tick_out,
                   interrupted>>

MonitorNext ==
    \/ CheckDevice
    \/ Backoff
    \/ Spawn
    \/ ExceptSleep
    \/ Poll
    \/ InnerCheck
    \/ Readline
    \/ Parse
    \/ AddReading
    \/ YieldRecord
    \/ Resume
    \/ Close
    \/ IdleSleep
    \/ KeyboardInterrupt
    \/ FinallyTerminate
    \/ FinallyWait
    \/ ChildWrites
    \/ ChildExits
    \/ ChildHangs

SpecMonitor == MonitorInit /\ [][MonitorNext]_vars

(* A KeyboardInterrupt raised outside the try body.  In the handler of line  *)
(* 127 (during its time.sleep(5)) it leaves the handler through the finally  *)
(* block and then propagates; in the finally block itself (before            *)
(* terminate(), or while wait() blocks) nothing catches it and it ends the   *)
(* generator at once with the rest of the block not run                      *)
KeyboardInterruptInTeardown ==
    /\ pc \in {"except_sleep", "finally", "finally_wait"}
    /\ interrupted' = TRUE
    /\ after' = "raise"
    /\ pc' = IF pc = "except_sleep" THEN "finally" ELSE "done"
    /\ UNCHANGED <<smootherVars, monitorFrame, iteration, process, last_reading, line, wind_speed,
                   slept_since_error, read_lines,
                   child, stdout, records, elapsed, nChecks, checks_failed,
                   ever_present, nSpawns, nLines, slept_since_exit, tick_out>>

TeardownNext == MonitorNext \/ KeyboardInterruptInTeardown

(* the supervisor with interrupts that can arrive at any statement *)
SpecMonitorTeardown == MonitorInit /\ [][TeardownNext]_vars


---------------------------------------------------------------------------
(* SmoothRampController: set_target and get_current_value run on the         *)
(* ingestion thread, _ramp_loop on the updater thread started by __init__.   *)
(* Each statement is one step; a with self.lock block is entered by the step *)
(* that takes the lock and left by the step that releases it.                *)

MaxSets  == 2      \* set_target calls in one behaviour
MaxReads == 1      \* get_current_value calls in one behaviour
MaxNow   == 2      \* the clock is followed up to here and while a ramp is due

(* SmoothRampController(ramp_duration, update_rate): 0.2 s and 0.1 s, so     *)
(* that the updater ticks at the start, the middle and the end of a ramp     *)
RampArgs == { [ramp_duration |-> 2, update_rate |-> 1] }

(* the new_target arguments: 0.1, 5.0 and 5.05 *)
Targets == { Unit \div 10, 5 * Unit, 5 * Unit + Unit \div 20 }

(* the 0.1 of line 46 *)
Threshold == Unit \div 10

Abs(x) == IF x < 0 THEN -x ELSE x

(* line 46 with >= for >: a change of exactly 0.1 starts a ramp *)
SignificantChangeInclusive(new, old) == Abs(new - old) >= Threshold

(* line 46: abs(new_target - self.target_value) > 0.1 *)
SignificantChange(new, old) == Abs(new - old) > Threshold

(* line 64: progress = min(elapsed / self.ramp_duration, 1.0) *)
RampProgress(e, duration) == Min((e * Unit) \div duration, Unit)

(* ease-out only: 1 - (1 - progress)^2 on the whole range *)
EaseOutOnly(progress) == Unit - ((Unit - progress) * (Unit - progress)) \div Unit

(* lines 67-70: smooth ease-in-out *)
EaseInOut(progress) ==
    IF 2 * progress < Unit
    THEN (2 * progress * progress) \div Unit
    ELSE Unit - (2 * (Unit - progress) * (Unit - progress)) \div Unit

(* line 73: start_value + (target_value - start_value) * ease_progress *)
RampValue(start, target, ease) == start + ((target - start) * ease) \div Unit

(* completion that forgets the target: the value goes back to the start *)
SnapValueToStart(start, target) == start

(* line 77: self.current_value = self.target_value *)
SnapValue(start, target) == target

(* a lock that every thread may take at any time *)
LockIgnored(holder) == TRUE

(* threading.Lock: acquire returns only while no thread holds the lock *)
LockFree(holder) == holder = "free"

(* the clock of the exploration runs up to MaxNow and as long as a started   *)
(* ramp is not yet due; after that no step reads a later time                *)
ClockRuns ==
    \/ now < MaxNow
    \/ /\ is_ramping
       /\ ramp_start_time # <<>>
       /\ now < ramp_start_time[1] + ramp_duration

(* __init__, lines 28-41: the fields, the lock, and the started thread *)
InitRamp(a) ==
    /\ ramp_duration = a.ramp_duration
    /\ update_rate = a.update_rate
    /\ ramp_current_value = 0
    /\ ramp_target_value = 0
    /\ ramp_start_value = 0
    /\ ramp_start_time = <<>>
    /\ is_ramping = FALSE
    /\ running = TRUE
    /\ lock = "free"
    /\ m_pc = "idle"
    /\ new_target = 0
    /\ returned = 0
    /\ nSet = 0
    /\ nRead = 0
    /\ r_pc = "while"
    /\ r_elapsed = 0
    /\ r_progress = -1
    /\ now = 1

RampInit ==
    /\ \E p \in MonitorProfiles : InitMonitorSmoother(p)
    /\ AuxNotStarted
    /\ MonitorNotStarted
    /\ CallerUnused
    /\ SynthNotStarted
    /\ \E a \in RampArgs : InitRamp(a)

(* what no step of the controller changes *)
rampFrame == <<smootherVars, callerVars, monitorVars, synthVars, auxVars, ramp_duration,
               update_rate, running>>

(* set_target(new_target), line 45: with self.lock *)
SetTargetEnter ==
    /\ m_pc = "idle"
    /\ nSet < MaxSets
    /\ LockFree(lock)
    /\ lock' = "main"
    /\ \E v \in Targets : new_target' = v
    /\ nSet' = nSet + 1
    /\ m_pc' = "st_test"
    /\ UNCHANGED <<rampFrame, ramp_current_value, ramp_target_value, ramp_start_value,
                   ramp_start_time, is_ramping, returned, nRead, r_pc, r_elapsed,
                   r_progress, now>>

(* line 46: if abs(new_target - self.target_value) > 0.1 *)
SetTargetTest ==
    /\ m_pc = "st_test"
    /\ m_pc' = IF SignificantChange(new_target, ramp_target_value)
               THEN "st_start" ELSE "st_noop"
    /\ UNCHANGED <<rampFrame, ramp_current_value, ramp_target_value, ramp_start_value,
                   ramp_start_time, is_ramping, lock, new_target, returned, nSet, nRead,
                   r_pc, r_elapsed, r_progress, now>>

(* line 47 taking the old target for the position: the value jumps there *)
SetTargetStartFromTarget ==
    /\ m_pc = "st_start"
    /\ ramp_start_value' = ramp_target_value
    /\ ramp_current_value' = ramp_target_value
    /\ m_pc' = "st_target"
    /\ UNCHANGED <<rampFrame, ramp_target_value, ramp_start_time,
                   is_ramping, lock, new_target, returned, nSet, nRead, r_pc, r_elapsed,
                   r_progress, now>>

(* line 47: self.start_value = self.current_value *)
SetTargetStart ==
    /\ m_pc = "st_start"
    /\ ramp_start_value' = ramp_current_value
    /\ m_pc' = "st_target"
    /\ UNCHANGED <<rampFrame, ramp_current_value, ramp_target_value, ramp_start_time,
                   is_ramping, lock, new_target, returned, nSet, nRead, r_pc, r_elapsed,
                   r_progress, now>>

(* line 48: self.target_value = new_target *)
SetTargetTarget ==
    /\ m_pc = "st_target"
    /\ ramp_target_value' = new_target
    /\ m_pc' = "st_time"
    /\ UNCHANGED <<rampFrame, ramp_current_value, ramp_start_value, ramp_start_time,
                   is_ramping, lock, new_target, returned, nSet, nRead, r_pc, r_elapsed,
                   r_progress, now>>

(* line 49: self.ramp_start_time = time.time() *)
SetTargetTime ==
    /\ m_pc = "st_time"
    /\ ramp_start_time' = <<now>>
    /\ m_pc' = "st_flag"
    /\ UNCHANGED <<rampFrame, ramp_current_value, ramp_target_value, ramp_start_value,
                   is_ramping, lock, new_target, returned, nSet, nRead, r_pc, r_elapsed,
                   r_progress, now>>

(* line 50: self.is_ramping = True *)
SetTargetFlag ==
    /\ m_pc = "st_flag"
    /\ is_ramping' = TRUE
    /\ m_pc' = "st_done"
    /\ UNCHANGED <<rampFrame, ramp_current_value, ramp_target_value, ramp_start_value,
                   ramp_start_time, lock, new_target, returned, nSet, nRead, r_pc,
                   r_elapsed, r_progress, now>>

(* the end of the with block of set_target: the lock is released *)
SetTargetRelease ==
    /\ m_pc \in {"st_done", "st_noop"}
    /\ lock' = "free"
    /\ m_pc' = "idle"
    /\ UNCHANGED <<rampFrame, ramp_current_value, ramp_target_value, ramp_start_value,
                   ramp_start_time, is_ramping, new_target, returned, nSet, nRead, r_pc,
                   r_elapsed, r_progress, now>>

(* get_current_value(), line 55: with self.lock *)
GetCurrentEnter ==
    /\ m_pc = "idle"
    /\ nRead < MaxReads
    /\ LockFree(lock)
    /\ lock' = "main"
    /\ nRead' = nRead + 1
    /\ m_pc' = "gc_read"
    /\ UNCHANGED <<rampFrame, ramp_current_value, ramp_target_value, ramp_start_value,
                   ramp_start_time, is_ramping, new_target, returned, nSet, r_pc,
                   r_elapsed, r_progress, now>>

(* line 56: return self.current_value, which also leaves the with block *)
GetCurrentReturn ==
    /\ m_pc = "gc_read"
    /\ returned' = ramp_current_value
    /\ lock' = "free"
    /\ m_pc' = "idle"
    /\ UNCHANGED <<rampFrame, ramp_current_value, ramp_target_value, ramp_start_value,
                   ramp_start_time, is_ramping, new_target, nSet, nRead, r_pc,
                   r_elapsed, r_progress, now>>

(* a loop that does not look at self.running *)
RampWhileForever ==
    /\ r_pc = "while"
    /\ r_pc' = "acquire"
    /\ UNCHANGED <<rampFrame, ramp_current_value, ramp_target_value, ramp_start_value,
                   ramp_start_time, is_ramping, lock, m_pc, new_target, returned, nSet,
                   nRead, r_elapsed, r_progress, now>>

(* _ramp_loop, line 60: while self.running *)
RampWhile ==
    /\ r_pc = "while"
    /\ r_pc' = IF running THEN "acquire" ELSE "exit"
    /\ UNCHANGED <<rampFrame, ramp_current_value, ramp_target_value, ramp_start_value,
                   ramp_start_time, is_ramping, lock, m_pc, new_target, returned, nSet,
                   nRead, r_elapsed, r_progress, now>>

(* line 61: with self.lock *)
RampAcquire ==
    /\ r_pc = "acquire"
    /\ LockFree(lock)
    /\ lock' = "ramp"
    /\ r_pc' = "test"
    /\ UNCHANGED <<rampFrame, ramp_current_value, ramp_target_value, ramp_start_value,
                   ramp_start_time, is_ramping, m_pc, new_target, returned, nSet, nRead,
                   r_elapsed, r_progress, now>>

(* line 62: if self.is_ramping and self.ramp_start_time, where None and 0.0  *)
(* are false                                                                 *)
RampTest ==
    /\ r_pc = "test"
    /\ r_pc' = IF is_ramping /\ ramp_start_time # <<>> /\ ramp_start_time[1] # 0
               THEN "elapsed" ELSE "release"
    /\ UNCHANGED <<rampFrame, ramp_current_value, ramp_target_value, ramp_start_value,
                   ramp_start_time, is_ramping, lock, m_pc, new_target, returned, nSet,
                   nRead, r_elapsed, r_progress, now>>

(* lines 63-64: elapsed = time.time() - self.ramp_start_time and progress *)
RampElapsed ==
    /\ r_pc = "elapsed"
    /\ r_elapsed' = now - ramp_start_time[1]
    /\ r_progress' = RampProgress(now - ramp_start_time[1], ramp_duration)
    /\ r_pc' = "assign"
    /\ UNCHANGED <<rampFrame, ramp_current_value, ramp_target_value, ramp_start_value,
                   ramp_start_time, is_ramping, lock, m_pc, new_target, returned, nSet,
                   nRead, now>>

(* lines 67-73: ease_progress and self.current_value = ... *)
RampAssign ==
    /\ r_pc = "assign"
    /\ ramp_current_value' = RampValue(ramp_start_value, ramp_target_value,
                                       EaseInOut(r_progress))
    /\ r_pc' = "snap_test"
    /\ UNCHANGED <<rampFrame, ramp_target_value, ramp_start_value, ramp_start_time,
                   is_ramping, lock, m_pc, new_target, returned, nSet, nRead, r_elapsed,
                   r_progress, now>>

(* lines 76-77: if progress >= 1.0: self.current_value = self.target_value *)
RampSnap ==
    /\ r_pc = "snap_test"
    /\ IF r_progress >= Unit
       THEN /\ ramp_current_value' = SnapValue(ramp_start_value, ramp_target_value)
            /\ r_pc' = "clear"
       ELSE /\ r_pc' = "release"
            /\ UNCHANGED ramp_current_value
    /\ UNCHANGED <<rampFrame, ramp_target_value, ramp_start_value, ramp_start_time,
                   is_ramping, lock, m_pc, new_target, returned, nSet, nRead, r_elapsed,
                   r_progress, now>>

(* line 78: self.is_ramping = False *)
RampClear ==
    /\ r_pc = "clear"
    /\ is_ramping' = FALSE
    /\ r_pc' = "release"
    /\ UNCHANGED <<rampFrame, ramp_current_value, ramp_target_value, ramp_start_value,
                   ramp_start_time, lock, m_pc, new_target, returned, nSet, nRead,
                   r_elapsed, r_progress, now>>

(* the end of the with block of _ramp_loop: the lock is released and the     *)
(* locals of the iteration are dead                                          *)
RampRelease ==
    /\ r_pc = "release"
    /\ lock' = "free"
    /\ r_elapsed' = 0
    /\ r_progress' = -1
    /\ r_pc' = "sleep"
    /\ UNCHANGED <<rampFrame, ramp_current_value, ramp_target_value, ramp_start_value,
                   ramp_start_time, is_ramping, m_pc, new_target, returned, nSet, nRead,
                   now>>

(* line 81: time.sleep(self.update_rate), during which the clock advances *)
RampSleep ==
    /\ r_pc = "sleep"
    /\ now' = IF ClockRuns THEN now + update_rate ELSE now
    /\ r_pc' = "while"
    /\ UNCHANGED <<rampFrame, ramp_current_value, ramp_target_value, ramp_start_value,
                   ramp_start_time, is_ramping, lock, m_pc, new_target, returned, nSet,
                   nRead, r_elapsed, r_progress>>

(* time passes while the threads run or wait *)
Tick ==
    /\ ClockRuns
    /\ now' = now + 1
    /\ UNCHANGED <<rampFrame, ramp_current_value, ramp_target_value, ramp_start_value,
                   ramp_start_time, is_ramping, lock, m_pc, new_target, returned, nSet,
                   nRead, r_pc, r_elapsed, r_progress>>

(* the steps of the ingestion thread *)
MainSteps ==
    \/ SetTargetEnter
    \/ SetTargetTest
    \/ SetTargetStart
    \/ SetTargetTarget
    \/ SetTargetTime
    \/ SetTargetFlag
    \/ SetTargetRelease
    \/ GetCurrentEnter
    \/ GetCurrentReturn

(* the steps of the updater thread *)
ramp_loop ==
    \/ RampWhile
    \/ RampAcquire
    \/ RampTest
    \/ RampElapsed
    \/ RampAssign
    \/ RampSnap
    \/ RampClear
    \/ RampRelease
    \/ RampSleep

RampNext ==
    \/ MainSteps
    \/ ramp_loop
    \/ Tick

SpecRamp == RampInit /\ [][RampNext]_vars

(* the same with threads that are scheduled: a thread that can take a step   *)
(* eventually takes one                                                      *)
SpecRampFair ==
    /\ SpecRamp
    /\ WF_vars(ramp_loop)
    /\ WF_vars(SetTargetTest \/ SetTargetStart \/ SetTargetTarget \/ SetTargetTime
               \/ SetTargetFlag \/ SetTargetRelease \/ GetCurrentReturn)

---------------------------------------------------------------------------
(* SmoothRampController.stop, called once by the finally block of run        *)
(* (intensity_signal_to_synth.py:204-205) when the ingestion thread is in no *)
(* other call; nothing is called after it.                                   *)

(* what stop leaves alone *)
stopFrame == <<smootherVars, callerVars, monitorVars, synthVars, auxVars, ramp_duration,
               update_rate, ramp_current_value, ramp_target_value, ramp_start_value,
               ramp_start_time, is_ramping, lock, new_target, returned, nSet, nRead,
               r_pc, r_elapsed, r_progress, now>>

(* line 85: self.running = False *)
StopClear ==
    /\ m_pc = "idle"
    /\ running
    /\ running' = FALSE
    /\ m_pc' = "stop_join"
    /\ UNCHANGED stopFrame

(* lines 86-87: if self.ramp_thread.is_alive(): self.ramp_thread.join(       *)
(* timeout=1.0), which returns when the thread has ended or, with the thread *)
(* still alive, when the second is over                                      *)
StopJoin ==
    /\ m_pc = "stop_join"
    /\ \/ /\ r_pc = "exit"
          /\ m_pc' = "stopped"
       \/ /\ r_pc # "exit"
          /\ m_pc' = "stopped:timeout"
    /\ UNCHANGED <<stopFrame, running>>

stop ==
    \/ StopClear
    \/ StopJoin

StopNext ==
    \/ MainSteps
    \/ ramp_loop
    \/ Tick
    \/ stop

SpecRampStop == RampInit /\ [][StopNext]_vars

(* the same with scheduled threads *)
SpecRampStopFair ==
    /\ SpecRampStop
    /\ WF_vars(ramp_loop)
    /\ WF_vars(SetTargetTest \/ SetTargetStart \/ SetTargetTarget \/ SetTargetTime
               \/ SetTargetFlag \/ SetTargetRelease \/ GetCurrentReturn \/ StopJoin)

---------------------------------------------------------------------------
(* SynthControl (src/midi/synth_control.py)                                  *)
(*                                                                           *)
(* Wind speeds, directions, temperatures and MIDI values are floats of the   *)
(* program and fixed-point numbers here (Unit is 1.0).  An argument that may *)
(* be None is a sequence: <<>> for None, <<x>> for x.  A control message is  *)
(* the record of its two data bytes; it counts as dispatched when it is      *)
(* handed to amidi (subprocess.run, line 89), whatever amidi makes of it.    *)

(* the SynthControl objects the examples build by default                    *)
(* (intensity_signal_to_synth.py:96, signal_to_synth.py:24,                  *)
(* test_lfo_mapping.py:90)                                                   *)
Intensities == {15 * Unit, 20 * Unit, 25 * Unit}

(* values passed to send_midi_cc: negative, fractional, in range, on the     *)
(* edges and above                                                           *)
MidiInputs == {-(11 * Unit) \div 2, -Unit \div 2, 0, (7 * Unit) \div 10, 64 * Unit,
               127 * Unit, (255 * Unit) \div 2, 200 * Unit}

(* wind speeds in MPH, below 0 to above every max_intensity *)
WindSpeeds == {-3 * Unit, 0, Unit \div 10, 5 * Unit, (25 * Unit) \div 2, 15 * Unit,
               (249 * Unit) \div 10, 25 * Unit, 30 * Unit}

(* directions in degrees: the eight compass points, the sector edges, and   *)
(* the same directions one or two turns further or one turn back            *)
Directions ==
    {0, 45 * Unit, 90 * Unit, 135 * Unit, 180 * Unit, 225 * Unit, 270 * Unit, 315 * Unit,
     (45 * Unit) \div 2, (45 * Unit) \div 2 - 1, (675 * Unit) \div 2, (675 * Unit) \div 2 - 1,
     360 * Unit, 405 * Unit, 765 * Unit, -45 * Unit, -90 * Unit, -360 * Unit,
     -(45 * Unit) \div 2, 630 * Unit}

(* temperatures in degrees Celsius *)
Temperatures == {-5 * Unit, 0, Unit \div 2, 20 * Unit, 25 * Unit, (399 * Unit) \div 10,
                 40 * Unit, 45 * Unit}

LfoNumbers == {0, 1, 2, 3}

(* the arguments control_lfo is called with *)
ControlArgs ==
    [lfo_number : LfoNumbers,
     wind_speed_mph : {5 * Unit, 30 * Unit},
     wind_direction_deg : {<<>>, <<90 * Unit>>},
     temperature_c : {<<>>, <<20 * Unit>>},
     depth_override : {<<>>, <<200>>}]

(* destination_cc and multiplier values passed by a caller *)
LfoValues == {20, 200}

(* int(value), line 79: truncation towards zero *)
IntTrunc(x) == IF x >= 0 THEN x \div Unit ELSE -((-x) \div Unit)

MidiValueUnbounded(value) == Max(0, IntTrunc(value))

(* midi_value = max(0, min(127, int(value))), line 79 *)
MidiValue(value) == Max(0, Min(127, IntTrunc(value)))

(* the message of lines 82 and 89: status byte B0, then cc_number and        *)
(* midi_value                                                                *)
MidiMessage(cc_number, value) == [cc |-> cc_number, value |-> MidiValue(value)]

(* self.LFO_CC_MAPPINGS, lines 29-54: the entries the methods use *)
LFO_CC_MAPPINGS ==
    [k \in {"lfo1", "lfo2"} |->
        IF k = "lfo1"
        THEN [speed |-> 28, depth |-> 29, waveform |-> 111, destination |-> 110,
              multiplier |-> 108]
        ELSE [speed |-> 30, depth |-> 31, waveform |-> 117, destination |-> 116,
              multiplier |-> 114]]

(* self.WAVEFORM_MAPPINGS, lines 57-66 *)
WAVEFORM_MAPPINGS ==
    [north |-> 0, northeast |-> 1, east |-> 2, southeast |-> 3, south |-> 4,
     southwest |-> 5, west |-> 6, northwest |-> 0]

(* lfo_key = f'lfo{lfo_number}', lines 164, 191, 204 *)
LfoKey(lfo_number) == <<"lfo0", "lfo1", "lfo2", "lfo3">>[lfo_number + 1]

LfoNumberUnchecked(lfo_number) == TRUE

(* the complement of the test "lfo_number not in [1, 2]", lines 161, 188, 201 *)
LfoNumberSupported(lfo_number) == lfo_number \in {1, 2}

RateUnclamped(wind_speed_mph, intensity) == (wind_speed_mph * 127) \div intensity

(* map_wind_speed_to_lfo_rate, lines 95-109: clamp to [0, max_intensity],    *)
(* normalize, int(normalized * 127)                                          *)
LfoRate(wind_speed_mph, intensity) ==
    LET clamped_speed == Max(0, Min(intensity, wind_speed_mph))
    IN  (clamped_speed * 127) \div intensity

WaveformOf(direction) ==
    IF direction < (45 * Unit) \div 2 \/ direction >= (675 * Unit) \div 2
    THEN WAVEFORM_MAPPINGS.north
    ELSE IF direction < (135 * Unit) \div 2 THEN WAVEFORM_MAPPINGS.northeast
    ELSE IF direction < (225 * Unit) \div 2 THEN WAVEFORM_MAPPINGS.east
    ELSE IF direction < (315 * Unit) \div 2 THEN WAVEFORM_MAPPINGS.southeast
    ELSE IF direction < (405 * Unit) \div 2 THEN WAVEFORM_MAPPINGS.south
    ELSE IF direction < (495 * Unit) \div 2 THEN WAVEFORM_MAPPINGS.southwest
    ELSE IF direction < (585 * Unit) \div 2 THEN WAVEFORM_MAPPINGS.west
    ELSE WAVEFORM_MAPPINGS.northwest

WaveformNoWrap(wind_direction_deg) == WaveformOf(wind_direction_deg)

(* map_wind_direction_to_waveform, lines 111-140: direction =                *)
(* wind_direction_deg % 360 (the result of % has the sign of 360), then the  *)
(* chain of sector tests                                                     *)
Waveform(wind_direction_deg) == WaveformOf(wind_direction_deg % (360 * Unit))

DepthUnclamped(temperature_c) == (temperature_c * 63) \div (40 * Unit)

(* map_temperature_to_depth, lines 142-156: clamp to [0, 40], normalize,     *)
(* int(normalized * 63)                                                      *)
Depth(temperature_c) ==
    LET clamped_temp == Max(0, Min(40 * Unit, temperature_c))
    IN  (clamped_temp * 63) \div (40 * Unit)

(* SynthControl.__init__, lines 23-26 *)
InitSynth(intensity) ==
    /\ max_intensity = intensity
    /\ synth_op = "__init__"
    /\ synth_arg = 0
    /\ synth_ret = -1
    /\ synth_outcome = "ok"
    /\ dispatched = <<>>
    /\ prev_op = "none"
    /\ prev_arg = 0
    /\ prev_ret = -1

SynthInit ==
    /\ \E p \in MonitorProfiles : InitMonitorSmoother(p)
    /\ AuxNotStarted
    /\ MonitorNotStarted
    /\ CallerUnused
    /\ RampNotStarted
    /\ \E i \in Intensities : InitSynth(i)

(* what the caller of a method sees when it is over, and what it saw of the  *)
(* call before                                                               *)
Called(name, arg, ret, result, messages) ==
    /\ synth_op' = name
    /\ synth_arg' = arg
    /\ synth_ret' = ret
    /\ synth_outcome' = result
    /\ dispatched' = messages
    /\ prev_op' = synth_op
    /\ prev_arg' = synth_arg
    /\ prev_ret' = synth_ret
    /\ UNCHANGED <<max_intensity, smootherVars, callerVars, monitorVars, rampVars, auxVars>>

(* send_midi_cc(cc_number, value), lines 76-93 *)
send_midi_cc ==
    \E value \in MidiInputs :
        Called("send_midi_cc", value, -1, "ok",
               <<MidiMessage(LFO_CC_MAPPINGS["lfo1"].speed, value)>>)

(* map_wind_speed_to_lfo_rate(wind_speed_mph), lines 95-109 *)
map_wind_speed_to_lfo_rate ==
    \E w \in WindSpeeds :
        Called("map_wind_speed_to_lfo_rate", w, LfoRate(w, max_intensity), "ok", <<>>)

(* map_wind_direction_to_waveform(wind_direction_deg), lines 111-140 *)
map_wind_direction_to_waveform ==
    \E d \in Directions :
        Called("map_wind_direction_to_waveform", d, Waveform(d), "ok", <<>>)

(* map_temperature_to_depth(temperature_c), lines 142-156 *)
map_temperature_to_depth ==
    \E t \in Temperatures :
        Called("map_temperature_to_depth", t, Depth(t), "ok", <<>>)

(* the messages of control_lfo, lines 171-184, in the order they are sent:   *)
(* speed, waveform if a direction is given, depth from the temperature or,   *)
(* without one, from depth_override                                          *)
ControlMessages(cc_mappings, a) ==
    <<MidiMessage(cc_mappings.speed, LfoRate(a.wind_speed_mph, max_intensity) * Unit)>>
    \o (IF a.wind_direction_deg # <<>>
        THEN <<MidiMessage(cc_mappings.waveform, Waveform(a.wind_direction_deg[1]) * Unit)>>
        ELSE <<>>)
    \o (IF a.temperature_c # <<>>
        THEN <<MidiMessage(cc_mappings.depth, Depth(a.temperature_c[1]) * Unit)>>
        ELSE IF a.depth_override # <<>>
        THEN <<MidiMessage(cc_mappings.depth, a.depth_override[1] * Unit)>>
        ELSE <<>>)

(* a method that starts with the lfo_number test and the lookup of           *)
(* lfo_key: ValueError from the test, KeyError from the lookup, otherwise    *)
(* the messages it sends with the entries found (messages maps each key to   *)
(* them)                                                                     *)
LfoCall(name, lfo_number, messages) ==
    IF ~LfoNumberSupported(lfo_number)
    THEN Called(name, lfo_number, -1, "raised:ValueError", <<>>)
    ELSE IF LfoKey(lfo_number) \notin DOMAIN LFO_CC_MAPPINGS
    THEN Called(name, lfo_number, -1, "raised:KeyError", <<>>)
    ELSE Called(name, lfo_number, -1, "ok", messages[LfoKey(lfo_number)])

(* control_lfo(lfo_number, wind_speed_mph, wind_direction_deg,               *)
(* temperature_c, depth_override), lines 158-184                             *)
control_lfo ==
    \E a \in ControlArgs :
        LfoCall("control_lfo", a.lfo_number,
                [k \in DOMAIN LFO_CC_MAPPINGS |-> ControlMessages(LFO_CC_MAPPINGS[k], a)])

(* set_lfo_destination(lfo_number, destination_cc), lines 186-197 *)
set_lfo_destination ==
    \E n \in LfoNumbers, destination_cc \in LfoValues :
        LfoCall("set_lfo_destination", n,
                [k \in DOMAIN LFO_CC_MAPPINGS |->
                    <<MidiMessage(LFO_CC_MAPPINGS[k].destination, destination_cc * Unit)>>])

(* set_lfo_multiplier(lfo_number, multiplier), lines 199-210 *)
set_lfo_multiplier ==
    \E n \in LfoNumbers, multiplier \in LfoValues :
        LfoCall("set_lfo_multiplier", n,
                [k \in DOMAIN LFO_CC_MAPPINGS |->
                    <<MidiMessage(LFO_CC_MAPPINGS[k].multiplier, multiplier * Unit)>>])

SynthNext ==
    \/ send_midi_cc
    \/ map_wind_speed_to_lfo_rate
    \/ map_wind_direction_to_waveform
    \/ map_temperature_to_depth
    \/ control_lfo
    \/ set_lfo_destination
    \/ set_lfo_multiplier

SpecSynth == SynthInit /\ [][SynthNext]_vars

---------------------------------------------------------------------------
(* Properties of the smoothing engine, checked under Spec *)

Gets == {"get_smoothed_value", "get_normalized_value"}

Between(lo, x, hi) == Min(lo, hi) <= x /\ x <= Max(lo, hi)

(* the last buffer_size samples passed to add_wind_reading, clamped *)
RecentClamped(n) ==
    [ i \in 1..Min(n, Len(added)) |->
        Min(added[Len(added) - Min(n, Len(added)) + i], max_wind_mph) ]

(* C1: every value get_normalized_value returns lies in [0, 1], for every     *)
(* smoothing type and every sequence of non-negative samples, also samples    *)
(* above max_wind_mph.                                                        *)
C1_NormalizedInUnitRange ==
    op = "get_normalized_value" => (0 <= normalized_out /\ normalized_out <= Unit)

(* C2: add_wind_reading sets last_value to the value get_smoothed_value was   *)
(* producing just before the call (from the old last_value, the old           *)
(* target_value and the old current_step).                                    *)
C2_AddStartsFromCurrentSignal ==
    [][op' = "add_wind_reading" /\ added' # added => last_value' = Smoothed]_vars

(* C3: 0 <= current_step <= interpolation_steps in every state reachable by   *)
(* add_wind_reading, the getters and the two parameter setters.               *)
C3_StepWithinBounds ==
    0 <= current_step /\ current_step <= interpolation_steps

(* C4: the first get_smoothed_value after an add_wind_reading returns         *)
(* last_value; after interpolation_steps further calls, with no               *)
(* add_wind_reading or parameter change in between, the call returns          *)
(* target_value, and so does every later one.                                 *)
C4_FirstLastThenTarget ==
    op \in Gets =>
        /\ gets_since_add = 1 => smoothed_out = last_value
        /\ gets_since_add > interpolation_steps => smoothed_out = target_value

(* C4 witness: two calls past the end of a transition between two different  *)
(* values, the returned value still on the target                            *)
C4_Witness ==
    /\ op \in Gets
    /\ interpolation_steps = 2
    /\ gets_since_add = interpolation_steps + 2
    /\ last_value # target_value
    /\ smoothed_out = target_value

(* C5: every value get_smoothed_value returns lies between last_value and     *)
(* target_value inclusive, and is target_value when current_step was          *)
(* interpolation_steps at the call.                                           *)
C5_BetweenEndpoints ==
    op \in Gets =>
        /\ Between(last_value, smoothed_out, target_value)
        /\ step_at_call = interpolation_steps => smoothed_out = target_value

(* C5 witness: a returned value strictly inside a transition *)
C5_Witness ==
    /\ op \in Gets
    /\ step_at_call > 0
    /\ step_at_call < interpolation_steps
    /\ Min(last_value, target_value) < smoothed_out
    /\ smoothed_out < Max(last_value, target_value)

(* C6: the buffer never holds more than buffer_size samples, and once         *)
(* buffer_size samples were added it holds exactly the most recent            *)
(* buffer_size of them.                                                       *)
C6_BufferCapacityIsBufferSize ==
    /\ Len(wind_buffer) <= buffer_size
    /\ Len(added) >= buffer_size => wind_buffer = RecentClamped(buffer_size)

C16_NormalizeNeverDividesByZero ==
    op = "get_normalized_value" => (max_wind_mph > 0 /\ outcome = "ok")

(* C23: with smoothing_type linear, after each add_wind_reading target_value *)
(* is the arithmetic mean of the most recent min(n, buffer_size) clamped     *)
(* samples, n being the number of samples added so far.                      *)
C23_LinearTargetIsWindowMean ==
    (smoothing_type = "linear" /\ op = "add_wind_reading") =>
        target_value = Mean(RecentClamped(Min(Len(added), buffer_size)))

(* C24: with smoothing_type exponential, each add_wind_reading sets          *)
(* target_value to alpha * sample + (1 - alpha) * (target_value before), with *)
(* alpha = 2/(N+1) and N the length of the buffer holding the new sample     *)
(* (the sample being the argument of the call, also above max_wind_mph); a   *)
(* first sample 4.0 gives target_value 4.0 and a second sample 8.0 gives     *)
(* 8.0 * 2/3 + 4.0 * 1/3 (6.67 to two places).                               *)
C24_ExponentialFold ==
    [][(op' = "add_wind_reading" /\ added' # added /\ smoothing_type = "exponential") =>
          LET N == Len(wind_buffer')
              sample == added'[Len(added')]
              alpha == (2 * Unit) \div (N + 1)
          IN  /\ target_value' = (alpha * sample + (Unit - alpha) * target_value) \div Unit
              /\ (nCfg = 0 /\ added' = <<4 * Unit>>) => target_value' = 4 * Unit
              /\ (nCfg = 0 /\ added' = <<4 * Unit, 8 * Unit>>) =>
                     /\ N = 2
                     /\ 3 * target_value' <= 2 * 8 * Unit + 4 * Unit
                     /\ 3 * target_value' >= 2 * 8 * Unit + 4 * Unit - 3 * (Unit \div 100)
      ]_vars

(* C24 witness: exponential since construction, 4.0 then 8.0 were added and  *)
(* target_value is 6.66 *)
C24_Witness ==
    /\ op = "add_wind_reading"
    /\ smoothing_type = "exponential"
    /\ nCfg = 0
    /\ added = <<4 * Unit, 8 * Unit>>
    /\ Len(wind_buffer) = 2
    /\ target_value > 6 * Unit
    /\ target_value < 7 * Unit

C30_ConfigLeavesInterpolation ==
    [][nCfg' # nCfg =>
          /\ last_value' = last_value
          /\ target_value' = target_value
          /\ current_step' = current_step
      ]_vars

(* C30 witness: the parameters were changed in the middle of a transition    *)
C30_Witness ==
    /\ op \in {"set_smoothing_profile", "set_custom_parameters"}
    /\ nCfg = 1
    /\ current_step > 0
    /\ current_step < interpolation_steps
    /\ last_value # target_value

(* C31: within one transition (no add_wind_reading or parameter change       *)
(* between the calls) and with smoothing_type linear, two consecutive        *)
(* returned values differ by at most one step's share                        *)
(* |target_value - last_value| / int(interpolation_steps / response_speed),  *)
(* the call that returns the terminal target_value included (0.001 is        *)
(* allowed for rounding).                                                    *)
C31_NoAbruptJump ==
    [][(/\ op \in Gets
        /\ op' \in Gets
        /\ nGet' = nGet + 1
        /\ gets_since_add >= 1
        /\ smoothing_type = "linear") =>
          Abs(smoothed_out' - smoothed_out)
              * AdjustedSteps(interpolation_steps, response_speed)
            <= Abs(target_value - last_value)
               + AdjustedSteps(interpolation_steps, response_speed)
      ]_vars

(* C37: of two consecutive get_smoothed_value calls (no add_wind_reading or  *)
(* parameter change between them) the second returns a value at least as     *)
(* close to target_value as the first, for every smoothing_type and          *)
(* response_speed.                                                           *)
C37_ApproachesTargetMonotonically ==
    [][(op \in Gets /\ op' \in Gets /\ nGet' = nGet + 1) =>
          Abs(target_value - smoothed_out') <= Abs(target_value - smoothed_out)
      ]_vars

(* C37 witness: the second call of a transition returned a value strictly    *)
(* between last_value and target_value                                       *)
C37_Witness ==
    /\ op \in Gets
    /\ gets_since_add = 2
    /\ Abs(target_value - smoothed_out) < Abs(target_value - last_value)
    /\ smoothed_out # target_value

---------------------------------------------------------------------------
(* Properties of the supervisor, checked under SpecMonitor *)

(* C7: while every check_device call has returned False, no decoder process   *)
(* was spawned, the generator has not terminated (unless interrupted), and    *)
(* it slept exactly one 5 s backoff per failed check.                         *)
C7_AbsentDeviceBacksOff ==
    ~ever_present =>
        /\ nSpawns = 0 /\ process = "None" /\ child = "none"
        /\ checks_failed = nChecks
        /\ pc \in {"check_device", "backoff", "finally", "done"}
        /\ ~interrupted =>
              /\ pc # "done"
              /\ elapsed = BackoffTenths *
                              (IF pc = "backoff" THEN checks_failed - 1 ELSE checks_failed)

(* C7 witness: two failed checks, two backoffs slept, about to check again *)
C7_Witness ==
    /\ ~ever_present
    /\ ~interrupted
    /\ checks_failed = 2
    /\ pc = "check_device"
    /\ elapsed = 2 * BackoffTenths

(* C8: an iteration of the inner loop that finds no new decoder line still    *)
(* yields a record to the consumer.                                           *)
C8_TickWithoutLineYields ==
    tick_out # "no_line"

(* C9: the teardown in the finally block always completes: its wait for the   *)
(* child is never one that cannot return.                                     *)
C9_TeardownCompletes ==
    pc = "finally_wait" => ENABLED FinallyWait

(* C10: between the detection of an exited child and the next spawn there is  *)
(* at least one backoff sleep.                                                *)
C10_BackoffBeforeRespawn ==
    pc = "spawn" => slept_since_exit # "no"

(* C11: an exception raised while spawning the decoder or while reading or    *)
(* parsing its output is caught and treated as transient: the generator ends  *)
(* only by KeyboardInterrupt or by being closed, and between the caught       *)
(* exception and the retry at the top of the outer loop it sleeps the fixed   *)
(* interval.                                                                  *)
C11_CaughtErrorSleepsBeforeRetry ==
    /\ pc = "done" => after \in {"stop", "close"}
    /\ pc = "check_device" => slept_since_error # "no"

(* C12: a decoder line that is not a well-formed JSON object is only          *)
(* discarded: the step that handles it yields no record, leaves the smoother  *)
(* and last_reading as they were and goes on reading from the same child,     *)
(* with no teardown.                                                          *)
C12_MalformedLineOnlyDiscarded ==
    [][ ( /\ pc = "parse"
          /\ pc' # "parse"
          /\ ~interrupted'
          /\ ~(line[1].json /\ line[1].object) )
        => ( /\ pc' = "poll"
             /\ UNCHANGED <<smootherVars, last_reading, records, process, child>> )
      ]_vars

(* the line passes the test of monitor.py line 83 *)
IsAccepted(l) == l.json /\ l.object /\ l.model = "Fineoffset-WH24"

(* C13: only an object whose model is exactly "Fineoffset-WH24" reaches       *)
(* add_wind_reading and the yield: the step that handles an object of another *)
(* or of no model yields no record and leaves the smoother and last_reading   *)
(* unchanged, and whenever the smoother, the records or last_reading change   *)
(* the line being handled is an accepted one.                                 *)
C13_OnlyExpectedModelAccepted ==
    [][ /\ ( /\ pc = "parse"
             /\ pc' # "parse"
             /\ ~interrupted'
             /\ line[1].json /\ line[1].object
             /\ line[1].model # "Fineoffset-WH24" )
           => ( /\ pc' = "poll"
                /\ UNCHANGED <<smootherVars, last_reading, records>> )
        /\ ( \/ smootherVars' # smootherVars
             \/ records' # records
             \/ last_reading' # last_reading )
           => ( line # <<>> /\ IsAccepted(line[1]) )
      ]_vars

(* C13 witness: after a delivered record an object without a model key has   *)
(* been handled and the generator is back at the top of the inner loop        *)
C13_Witness ==
    /\ pc = "poll"
    /\ tick_out = "discarded"
    /\ line # <<>>
    /\ line[1].object
    /\ line[1].model = ""
    /\ records # <<>>
    /\ last_reading # <<>>

(* C14: the records are delivered in arrival order and exactly once: the i-th *)
(* record carries the sample of the i-th accepted line that readline          *)
(* returned, the smoother buffer holds the (clamped) samples of the accepted   *)
(* lines in that order, each folded once, and a record is yielded only after  *)
(* its sample was folded; an accepted line is without its record only while   *)
(* it is being handled or after a KeyboardInterrupt cut its handling short.   *)
C14_InOrderExactlyOnce ==
    LET acc    == SelectSeq(read_lines, IsAccepted)
        n      == Len(records)
        folded == Len(wind_buffer)
    IN  /\ folded <= Len(acc)
        /\ n <= folded
        /\ \A i \in 1..n : records[i].wind_speed = MsToMph(acc[i].wind_avg_m_s)
        /\ \A i \in 1..folded :
              wind_buffer[i] = Min(MsToMph(acc[i].wind_avg_m_s), max_wind_mph)
        /\ Len(acc) - folded <= 1
        /\ Len(acc) - folded = 1 => (pc \in {"parse", "add"} \/ interrupted)
        /\ folded - n <= 1
        /\ folded - n = 1 => (pc = "normalize" \/ interrupted)

(* C14 witness: two records of different samples, the second one read from a  *)
(* restarted decoder                                                          *)
C14_Witness ==
    /\ Len(records) = 2
    /\ records[1].wind_speed # records[2].wind_speed
    /\ nSpawns = 2
    /\ pc = "yielded"

---------------------------------------------------------------------------
(* Properties of the ramp controller, checked under SpecRamp and SpecRampFair *)

(* the shared ramp state *)
rampState == <<ramp_current_value, ramp_target_value, ramp_start_value,
               ramp_start_time, is_ramping>>

(* C17: a set_target call whose argument is within 0.1 of target_value is a   *)
(* no-op, ramping or not: from taking the lock to releasing it, it leaves     *)
(* start_value, target_value, ramp_start_time, is_ramping and current_value   *)
(* unchanged.                                                                 *)
C17_SmallChangeIsNoOp ==
    [][ /\ (m_pc = "idle" /\ m_pc' = "st_test") => UNCHANGED rampState
        /\ ( /\ m_pc = "st_test"
             /\ m_pc' # m_pc
             /\ Abs(new_target - ramp_target_value) <= Unit \div 10 )
           => (m_pc' = "st_noop" /\ UNCHANGED rampState)
        /\ (m_pc = "st_noop" /\ m_pc' # m_pc)
           => (m_pc' = "idle" /\ UNCHANGED rampState)
      ]_vars

(* C17 witness: in the middle of a ramp, set_target was called with a value   *)
(* that differs from target_value by no more than 0.1 and found to be a no-op *)
C17_Witness ==
    /\ m_pc = "st_noop"
    /\ is_ramping
    /\ new_target # ramp_target_value
    /\ ramp_current_value # ramp_start_value
    /\ ramp_current_value # ramp_target_value

(* C18: a set_target call that starts a ramp records start_value =            *)
(* current_value, target_value = v, ramp_start_time = the time of the call    *)
(* and is_ramping; an updater tick at elapsed 0 then yields start_value, a    *)
(* tick at elapsed = ramp_duration / 2 yields the midpoint of start_value and *)
(* target_value (to the last fixed-point digit), and a tick at elapsed >=     *)
(* ramp_duration yields target_value exactly.                                 *)
C18_RampEndpointsAndMidpoint ==
    /\ m_pc = "st_done"
       => /\ ramp_start_value = ramp_current_value
          /\ ramp_target_value = new_target
          /\ ramp_start_time # <<>>
          /\ ramp_start_time[1] <= now
          /\ is_ramping
    /\ (r_pc = "snap_test" /\ r_elapsed = 0)
       => ramp_current_value = ramp_start_value
    /\ (r_pc = "snap_test" /\ 2 * r_elapsed = ramp_duration)
       => Abs(2 * (ramp_current_value - ramp_start_value)
              - (ramp_target_value - ramp_start_value)) <= 1
    /\ (r_pc = "release" /\ r_progress >= 0 /\ r_elapsed >= ramp_duration)
       => ramp_current_value = ramp_target_value

(* C18 witness: the updater has just computed the value of a tick at exactly  *)
(* half the ramp duration, strictly between start and target                  *)
C18_Witness ==
    /\ r_pc = "snap_test"
    /\ 2 * r_elapsed = ramp_duration
    /\ ramp_start_value # ramp_target_value
    /\ ramp_current_value # ramp_start_value
    /\ ramp_current_value # ramp_target_value

(* C19: with the updater thread being scheduled, a started ramp eventually    *)
(* ends with is_ramping false and current_value equal to target_value, and    *)
(* while is_ramping is false the steps of the updater leave current_value,    *)
(* target_value and is_ramping unchanged.                                     *)
C19_RampCompletes ==
    /\ is_ramping ~> (~is_ramping /\ ramp_current_value = ramp_target_value)
    /\ [][ (~is_ramping /\ r_pc' # r_pc)
           => UNCHANGED <<ramp_current_value, ramp_target_value, is_ramping>> ]_vars

(* C19 witness: a ramp to a new target has completed and the updater sleeps   *)
C19_Witness ==
    /\ nSet >= 1
    /\ ~is_ramping
    /\ ramp_target_value # 0
    /\ ramp_current_value = ramp_target_value
    /\ r_pc = "sleep"

(* the statements inside the with self.lock blocks *)
MainInside == m_pc \in {"st_test", "st_start", "st_target", "st_time", "st_flag",
                        "st_done", "st_noop", "gc_read"}
RampInside == r_pc \in {"test", "elapsed", "assign", "snap_test", "clear", "release"}

(* C20: a thread is at a statement that reads or writes the shared ramp state *)
(* only while it holds the lock; the updater's elapsed time is measured from  *)
(* the ramp_start_time that belongs to the start_value and target_value it    *)
(* interpolates between; and current_value lies between start_value and       *)
(* target_value inclusive in every state.                                     *)
C20_LockedConsistentRamp ==
    /\ MainInside => lock = "main"
    /\ RampInside => lock = "ramp"
    /\ r_pc \in {"assign", "snap_test"}
       => /\ ramp_start_time # <<>>
          /\ 0 <= r_elapsed
          /\ r_elapsed <= now - ramp_start_time[1]
    /\ r_pc = "snap_test"
       => ramp_current_value = RampValue(ramp_start_value, ramp_target_value,
                                         EaseInOut(r_progress))
    /\ Between(ramp_start_value, ramp_current_value, ramp_target_value)

(* C20 witness: the ingestion thread still has a set_target call to make while  *)
(* the updater, holding it, has computed a value inside a ramp                *)
C20_Witness ==
    /\ lock = "ramp"
    /\ r_pc = "snap_test"
    /\ m_pc = "idle"
    /\ nSet < MaxSets
    /\ ramp_current_value # ramp_start_value
    /\ ramp_current_value # ramp_target_value

---------------------------------------------------------------------------
(* Properties of the synthesizer control, checked under SpecSynth *)

(* C21: every control message send_midi_cc dispatches carries an integer     *)
(* value in [0,127]: 0 for a negative input, 127 for an input of 127 or      *)
(* more, the integer part of a fractional input in between; no message of    *)
(* any method carries a value outside [0,127].                               *)
C21_DispatchedValueClamped ==
    /\ \A i \in DOMAIN dispatched : dispatched[i].value \in 0..127
    /\ synth_op = "send_midi_cc" =>
        /\ Len(dispatched) = 1
        /\ synth_arg < 0 => dispatched[1].value = 0
        /\ synth_arg >= 127 * Unit => dispatched[1].value = 127
        /\ (0 <= synth_arg /\ synth_arg < 127 * Unit) =>
               /\ dispatched[1].value * Unit <= synth_arg
               /\ synth_arg < (dispatched[1].value + 1) * Unit

(* C21 witness: send_midi_cc was called with 200.0 and dispatched 127 *)
C21_Witness ==
    /\ synth_op = "send_midi_cc"
    /\ synth_arg = 200 * Unit
    /\ dispatched = <<[cc |-> 28, value |-> 127]>>

(* C22: control_lfo, set_lfo_destination and set_lfo_multiplier called with  *)
(* an lfo_number outside {1, 2} end in ValueError and have dispatched no     *)
(* message.                                                                  *)
C22_BadLfoNumberRaisesBeforeDispatch ==
    (/\ synth_op \in {"control_lfo", "set_lfo_destination", "set_lfo_multiplier"}
     /\ synth_arg \notin {1, 2})
        => (synth_outcome = "raised:ValueError" /\ dispatched = <<>>)

(* C22 witness: control_lfo(3, ...) raised ValueError with nothing sent,     *)
(* right after a call that did send a message                                *)
C22_Witness ==
    /\ synth_op = "control_lfo"
    /\ synth_arg = 3
    /\ synth_outcome = "raised:ValueError"
    /\ dispatched = <<>>
    /\ prev_op = "set_lfo_multiplier"
    /\ prev_arg = 2

(* C26: map_wind_speed_to_lfo_rate returns an integer in [0,127], 0 for a    *)
(* speed <= 0, 127 for a speed >= max_intensity, and of two calls the one    *)
(* with the larger speed does not return the smaller rate.                   *)
C26_LfoRateBoundedMonotone ==
    synth_op = "map_wind_speed_to_lfo_rate" =>
        /\ synth_ret \in 0..127
        /\ synth_arg <= 0 => synth_ret = 0
        /\ synth_arg >= max_intensity => synth_ret = 127
        /\ (prev_op = "map_wind_speed_to_lfo_rate" /\ prev_arg <= synth_arg)
               => prev_ret <= synth_ret

(* C26 witness: a speed below 0 gave 0 and then a speed above max_intensity  *)
(* gave 127                                                                  *)
C26_Witness ==
    /\ synth_op = "map_wind_speed_to_lfo_rate"
    /\ prev_op = "map_wind_speed_to_lfo_rate"
    /\ prev_arg < 0
    /\ prev_ret = 0
    /\ synth_arg > max_intensity
    /\ synth_ret = 127

(* the compass points and the codes the claim gives them *)
CompassCodes ==
    {<<0, 0>>, <<45, 1>>, <<90, 2>>, <<135, 3>>, <<180, 4>>, <<225, 5>>, <<270, 6>>,
     <<315, 0>>}

(* C27: map_wind_direction_to_waveform returns a code in 0..6 for every      *)
(* direction, two directions that are equal modulo 360 get the same code,    *)
(* and 0, 45, ..., 315 get 0, 1, 2, 3, 4, 5, 6, 0.                           *)
C27_WaveformTotalPeriodic ==
    synth_op = "map_wind_direction_to_waveform" =>
        /\ synth_outcome = "ok"
        /\ synth_ret \in 0..6
        /\ (/\ prev_op = "map_wind_direction_to_waveform"
            /\ (synth_arg - prev_arg) % (360 * Unit) = 0) => synth_ret = prev_ret
        /\ \A c \in CompassCodes : synth_arg = c[1] * Unit => synth_ret = c[2]

(* C27 witness: 45 degrees gave code 1 and then 765 degrees (two turns       *)
(* further) gave code 1 as well                                              *)
C27_Witness ==
    /\ synth_op = "map_wind_direction_to_waveform"
    /\ prev_op = "map_wind_direction_to_waveform"
    /\ prev_arg = 45 * Unit
    /\ prev_ret = 1
    /\ synth_arg = 765 * Unit
    /\ synth_ret = 1

(* C28: map_temperature_to_depth returns an integer in [0,63], 0 for a       *)
(* temperature <= 0, 63 for a temperature >= 40, and of two calls the one    *)
(* with the larger temperature does not return the smaller depth.            *)
C28_DepthBoundedMonotone ==
    synth_op = "map_temperature_to_depth" =>
        /\ synth_ret \in 0..63
        /\ synth_arg <= 0 => synth_ret = 0
        /\ synth_arg >= 40 * Unit => synth_ret = 63
        /\ (prev_op = "map_temperature_to_depth" /\ prev_arg <= synth_arg)
               => prev_ret <= synth_ret

(* C28 witness: -5 degrees gave 0 and then 45 degrees gave 63 *)
C28_Witness ==
    /\ synth_op = "map_temperature_to_depth"
    /\ prev_op = "map_temperature_to_depth"
    /\ prev_arg = -5 * Unit
    /\ prev_ret = 0
    /\ synth_arg = 45 * Unit
    /\ synth_ret = 63

---------------------------------------------------------------------------
(* Properties of the inner monitoring loop, checked under SpecMonitor *)

(* what one iteration of the inner loop may have done so far: the child is   *)
(* polled, then the device is looked for, then a line is read, then parsed;  *)
(* the iteration ends at a child found exited or a device found absent       *)
IterationOrders ==
    {<<>>, <<"poll:exited">>, <<"poll:alive">>,
     <<"poll:alive", "device:absent">>, <<"poll:alive", "device:present">>,
     <<"poll:alive", "device:present", "readline">>,
     <<"poll:alive", "device:present", "readline", "parse">>}

(* C29: in each iteration of the inner loop the child is polled first, the   *)
(* device is checked second and a line is read and parsed last; no line is   *)
(* read or parsed in an iteration that found the child exited or the device  *)
(* absent; after a lost device the finally block terminates the child, and   *)
(* the outer loop is back at check_device and Popen only with that child     *)
(* gone.                                                                     *)
C29_PollThenDeviceThenRead ==
    /\ iteration \in IterationOrders
    /\ pc \in {"readline", "parse"} =>
           (iteration[1] = "poll:alive" /\ iteration[2] = "device:present")
    /\ (pc = "finally" /\ iteration = <<"poll:alive", "device:absent">>) =>
           process = "Popen"
    /\ pc \in {"check_device", "backoff", "spawn"} => child \in {"none", "exited"}

(* C29 witness: the device was found absent with a live child that had       *)
(* written a line, the line was not read, and the outer loop is about to     *)
(* start the next child with the old one exited                              *)
C29_Witness ==
    /\ pc = "spawn"
    /\ nSpawns = 1
    /\ iteration = <<"poll:alive", "device:absent">>
    /\ child = "exited"
    /\ stdout # <<>>
    /\ read_lines = <<>>

(* C38: set_target does not change current_value: from the step that takes   *)
(* the lock for the ingestion thread to the step that releases it no step of *)
(* any thread changes current_value, so a get_current_value right after the  *)
(* call returns what one right before it returned; a call that starts a ramp *)
(* has start_value = current_value, also in the middle of a ramp.            *)
C38_SetTargetKeepsCurrentValue ==
    [][/\ (lock = "main" \/ lock' = "main") => ramp_current_value' = ramp_current_value
       /\ m_pc' \in {"st_target", "st_time", "st_flag", "st_done"} =>
              ramp_start_value' = ramp_current_value'
      ]_vars

(* C38 witness: a second set_target came at the midpoint of the ramp from    *)
(* 0.0 to 5.0 and started the new ramp from 2.5                              *)
C38_Witness ==
    /\ m_pc = "st_done"
    /\ nSet = 2
    /\ ramp_target_value = Unit \div 10
    /\ ramp_current_value = (5 * Unit) \div 2
    /\ ramp_start_value = ramp_current_value

---------------------------------------------------------------------------
(* Properties of stop, checked under SpecRampStopFair *)

(* the updater is past the assignment of its current iteration, or between   *)
(* two iterations: r_pc is not "assign" and not on the way to it             *)
PastAssign == r_pc \in {"snap_test", "clear", "release", "sleep", "while", "exit"}

(* C34: stop clears running and its join returns (with the thread ended or   *)
(* after the timeout); once running is cleared the updater starts no further *)
(* iteration, assigns current_value at most once more (the iteration it was  *)
(* in) and then leaves its loop; the updater never holds the lock while it   *)
(* sleeps.                                                                   *)
C34_StopReturnsAndLoopExits ==
    /\ [][(~running /\ r_pc = "while") => r_pc' \in {"while", "exit"}]_vars
    /\ [][(~running /\ PastAssign) => (~running' /\ PastAssign')]_vars
    /\ [](m_pc \in {"stop_join", "stopped", "stopped:timeout"} => ~running)
    /\ [](r_pc = "sleep" => lock # "ramp")
    /\ (m_pc = "stop_join") ~> (m_pc \in {"stopped", "stopped:timeout"})
    /\ (~running) ~> (r_pc = "exit")

(* C34 witness: stop was called in the middle of a ramp, the updater has     *)
(* left its loop and the join has returned                                   *)
C34_Witness ==
    /\ m_pc = "stopped"
    /\ r_pc = "exit"
    /\ is_ramping
    /\ ramp_current_value # ramp_target_value
    /\ lock = "free"

---------------------------------------------------------------------------
(* Properties of the child's lifetime, checked under SpecMonitorTeardown *)

(* C35: a new child is spawned only after the previous one has been          *)
(* terminated and reaped, and once the generator has ended no child is left  *)
(* alive.                                                                    *)
C35_NoChildLeftRunning ==
    /\ pc = "spawn" => child \in {"none", "exited"}
    /\ pc = "done" => child \in {"none", "exited"}

---------------------------------------------------------------------------
(* Properties of last_reading, checked under SpecMonitor *)

(* what get_latest_reading (lines 136-150) reads: the wind_speed of           *)
(* self.last_reading, or None when there is no last reading                   *)
LatestWindSpeed == IF last_reading = <<>> THEN <<>> ELSE <<last_reading[1].wind_speed>>

(* C36: while the generator is suspended at the yield of a record,           *)
(* last_reading already holds the reading of that record, so that            *)
(* get_latest_reading returns the reading delivered last.                    *)
C36_LastReadingHoldsYielded ==
    pc = "yielded" => LatestWindSpeed = <<records[Len(records)].wind_speed>>

---------------------------------------------------------------------------
(* monitor_ws2000.WS2000Monitor.get_latest_reading (src/monitor_ws2000.py), *)
(* a single-shot read, with the rtl_433 child it starts                      *)

MaxShots     == 2   \* get_latest_reading calls in one behaviour
MaxShotLines == 2   \* lines a child has written and nobody has read

(* lines 38, 119 and 137: the default values *)
DefaultShot == [wind_speed |-> 0, wind_direction |-> 0]

(* what a child can write on one line: the lines of DecoderLines, which carry *)
(* no wind_speed key, and a Fineoffset-WH24 object that carries one           *)
ShotLines ==
    DecoderLines \cup
    { [json |-> TRUE, object |-> TRUE, model |-> "Fineoffset-WH24", wind_speed |-> 3 * Unit] }

(* lines 83-93: data.get('wind_speed', 0) * 2.23694 and the dict returned;   *)
(* the lines modelled carry no direction, temperature or humidity            *)
ShotReading(data) ==
    [wind_speed |-> MsToMph(IF "wind_speed" \in DOMAIN data THEN data.wind_speed ELSE 0),
     wind_direction |-> 0, temperature |-> 0, humidity |-> 0]

(* what no step of the call changes *)
shotFrame == <<smootherVars, callerVars, monitorVars, rampVars, synthVars, fixedVars, svVars>>

ShotInit ==
    /\ \E p \in MonitorProfiles : InitMonitorSmoother(p)
    /\ MonitorNotStarted
    /\ CallerUnused
    /\ RampNotStarted
    /\ SynthNotStarted
    /\ AuxNotStarted

(* the caller calls get_latest_reading, line 31 *)
ShotCall ==
    /\ shot_pc \in {"idle", "returned"}
    /\ nShots < MaxShots
    /\ nShots' = nShots + 1
    /\ shot_pc' = "check_rtl_433"
    /\ shot_child' = "none"
    /\ shot_stdout' = <<>>
    /\ shot_line' = <<>>
    /\ shot_ret' = <<>>
    /\ shot_result' = <<>>
    /\ UNCHANGED shotFrame

(* lines 36-38 with check_rtl_433, lines 13-29: subprocess.run with a 5 s    *)
(* timeout, True or False                                                    *)
ShotCheck ==
    /\ shot_pc = "check_rtl_433"
    /\ \E available \in BOOLEAN :
          IF available
          THEN /\ shot_pc' = "popen"
               /\ UNCHANGED shot_result
          ELSE /\ shot_pc' = "returned"
               /\ shot_result' = <<DefaultShot>>
    /\ UNCHANGED <<shotFrame, shot_child, shot_stdout, shot_line, shot_ret, nShots>>

(* lines 54-59: subprocess.Popen, which may raise; the handler of lines       *)
(* 133-137 then returns the default values                                   *)
ShotPopen ==
    /\ shot_pc = "popen"
    /\ \E raised \in BOOLEAN :
          IF raised
          THEN /\ shot_pc' = "returned"
               /\ shot_result' = <<DefaultShot>>
               /\ UNCHANGED shot_child
          ELSE /\ shot_pc' = "select"
               /\ shot_child' = "running"
               /\ UNCHANGED shot_result
    /\ UNCHANGED <<shotFrame, shot_stdout, shot_line, shot_ret, nShots>>

(* line 70: select.select([process.stdout], [], [], 15.0): the pipe is        *)
(* readable once it holds data or is at end of file; else the 15 s pass      *)
ShotSelect ==
    /\ shot_pc = "select"
    /\ shot_pc' = IF shot_stdout # <<>> \/ shot_child = "exited"
                  THEN "readline" ELSE "timed_out"
    /\ UNCHANGED <<shotFrame, shot_child, shot_stdout, shot_line, shot_ret, shot_result, nShots>>

(* lines 72-76: line = process.stdout.readline(); at end of file it is empty *)
(* and the call goes on to the return of line 119                            *)
ShotReadline ==
    /\ shot_pc = "readline"
    /\ IF shot_stdout # <<>>
       THEN /\ shot_line' = <<Head(shot_stdout)>>
            /\ shot_stdout' = Tail(shot_stdout)
            /\ shot_pc' = "parse"
            /\ UNCHANGED shot_ret
       ELSE /\ shot_child = "exited"
            /\ shot_ret' = <<DefaultShot>>
            /\ shot_pc' = "terminate"
            /\ UNCHANGED <<shot_line, shot_stdout>>
    /\ UNCHANGED <<shotFrame, shot_child, shot_result, nShots>>

(* lines 77-101 and 119: json.loads, the model test, the conversion and the  *)
(* return.  json.JSONDecodeError is passed over; the AttributeError of        *)
(* data.get on a value that is no dict leaves through the finally block to   *)
(* the handler of lines 133-137; both return the default values              *)
ShotParse ==
    /\ shot_pc = "parse"
    /\ LET data == shot_line[1]
       IN  shot_ret' = IF data.json /\ data.object /\ data.model = "Fineoffset-WH24"
                       THEN <<ShotReading(data)>>
                       ELSE <<DefaultShot>>
    /\ shot_pc' = "terminate"
    /\ UNCHANGED <<shotFrame, shot_child, shot_stdout, shot_line, shot_result, nShots>>

(* lines 102-116: the select timed out; process.poll(), then in both         *)
(* branches process.stderr.read()                                            *)
ShotTimedOut ==
    /\ shot_pc = "timed_out"
    /\ shot_pc' = "stderr_read"
    /\ UNCHANGED <<shotFrame, shot_child, shot_stdout, shot_line, shot_ret, shot_result, nShots>>

(* lines 108 and 113: process.stderr.read() reads to end of file, which the  *)
(* pipe reaches when the child has exited; then the return of line 119       *)
ShotStderrRead ==
    /\ shot_pc = "stderr_read"
    /\ shot_child = "exited"
    /\ shot_ret' = <<DefaultShot>>
    /\ shot_pc' = "terminate"
    /\ UNCHANGED <<shotFrame, shot_child, shot_stdout, shot_line, shot_result, nShots>>

(* lines 121-124: finally: process.terminate() *)
ShotTerminate ==
    /\ shot_pc = "terminate"
    /\ shot_child' = IF shot_child = "running" THEN "exited" ELSE shot_child
    /\ shot_pc' = "wait"
    /\ UNCHANGED <<shotFrame, shot_stdout, shot_line, shot_ret, shot_result, nShots>>

(* lines 125-131: process.wait(timeout=5); on TimeoutExpired process.kill()  *)
(* and process.wait(); then the pending return completes                     *)
ShotWait ==
    /\ shot_pc = "wait"
    /\ shot_child \in {"exited", "hung"}
    /\ shot_child' = "exited"
    /\ shot_result' = shot_ret
    /\ shot_pc' = "returned"
    /\ UNCHANGED <<shotFrame, shot_stdout, shot_line, shot_ret, nShots>>

(* the steps of the call itself *)
ShotStep ==
    \/ ShotCheck
    \/ ShotPopen
    \/ ShotSelect
    \/ ShotReadline
    \/ ShotParse
    \/ ShotTimedOut
    \/ ShotStderrRead
    \/ ShotTerminate
    \/ ShotWait

(* the child writes a line *)
ShotChildWrites ==
    /\ shot_child = "running"
    /\ Len(shot_stdout) < MaxShotLines
    /\ \E l \in ShotLines : shot_stdout' = Append(shot_stdout, l)
    /\ UNCHANGED <<shotFrame, shot_pc, shot_child, shot_line, shot_ret, shot_result, nShots>>

(* the child exits on its own *)
ShotChildExits ==
    /\ shot_child = "running"
    /\ shot_child' = "exited"
    /\ UNCHANGED <<shotFrame, shot_pc, shot_stdout, shot_line, shot_ret, shot_result, nShots>>

(* the child hangs: it writes nothing more and ignores SIGTERM *)
ShotChildHangs ==
    /\ shot_child = "running"
    /\ shot_child' = "hung"
    /\ UNCHANGED <<shotFrame, shot_pc, shot_stdout, shot_line, shot_ret, shot_result, nShots>>

ShotNext ==
    \/ ShotCall
    \/ ShotStep
    \/ ShotChildWrites
    \/ ShotChildExits
    \/ ShotChildHangs

SpecShot == ShotInit /\ [][ShotNext]_vars

---------------------------------------------------------------------------
(* Properties of the single-shot read, checked under SpecShot *)

(* C32: get_latest_reading never blocks for good: while the call is in       *)
(* progress some step of the call itself can be taken whatever its child     *)
(* does, and when it has returned it has returned a dict with wind_speed and *)
(* wind_direction and its child is no longer alive.                          *)
C32_SingleShotReturns ==
    /\ shot_pc \notin {"idle", "returned"} => ENABLED ShotStep
    /\ shot_pc = "returned" =>
          /\ shot_result # <<>>
          /\ {"wind_speed", "wind_direction"} \subseteq DOMAIN shot_result[1]
          /\ shot_child \in {"none", "exited"}

---------------------------------------------------------------------------
(* monitor_ws2000_fixed.WS2000Monitor (src/monitor_ws2000_fixed.py): a       *)
(* generator that polls with one bounded subprocess.run per iteration, and   *)
(* the WindSmoother of src/wind_smoother.py it feeds                         *)

MaxIters == 4      \* iterations of the while loop in one behaviour

(* src/wind_smoother.py, get_smoothed_value: progress = current_step /       *)
(* interpolation_steps, linear, no terminal test and no response speed       *)
SimpleSmoothed(last, target, step, steps) ==
    Interpolate(last, target, (step * Unit) \div steps)

(* src/wind_smoother.py, add_wind_reading: last_value = target_value, then   *)
(* the mean of the buffer                                                    *)
SimpleAddFields(wind_mph) ==
    LET buf == DequeAppend(wind_buffer, maxlen, Min(wind_mph, max_wind_mph))
    IN  /\ wind_buffer' = buf
        /\ last_value' = target_value
        /\ target_value' = Mean(buf)
        /\ current_step' = 0
        /\ UNCHANGED <<buffer_size, max_wind_mph, interpolation_steps, smoothing_type,
                       response_speed, maxlen>>

(* the fields after get_smoothed_value() of src/wind_smoother.py *)
SimpleGetFields ==
    /\ current_step' = Min(current_step + 1, interpolation_steps)
    /\ UNCHANGED <<buffer_size, max_wind_mph, interpolation_steps, smoothing_type,
                   response_speed, wind_buffer, maxlen, last_value, target_value>>

(* get_normalized_value() of src/wind_smoother.py in the current state *)
SimpleNormalized ==
    (SimpleSmoothed(last_value, target_value, current_step, interpolation_steps) * Unit)
        \div max_wind_mph

(* WS2000Monitor.__init__: WindSmoother(buffer_size=10, max_wind_mph=20.0);  *)
(* this WindSmoother has no smoothing_type and no response_speed, which keep *)
(* the values of a linear smoother at full speed                             *)
InitSimpleSmoother ==
    /\ buffer_size = 10
    /\ max_wind_mph = 20 * Unit
    /\ interpolation_steps = 150
    /\ smoothing_type = "linear"
    /\ response_speed = Unit
    /\ wind_buffer = <<>>
    /\ maxlen = 10
    /\ last_value = 0
    /\ target_value = 0
    /\ current_step = 0

(* what subprocess.run can come to: TimeoutExpired, another exception, or    *)
(* the lines the child wrote before it ended                                 *)
RunOutcomes ==
    { [kind |-> "timeout", lines |-> <<>>], [kind |-> "error", lines |-> <<>>] }
    \cup { [kind |-> "output", lines |-> <<>>] }
    \cup { [kind |-> "output", lines |-> <<l>>] : l \in DecoderLines }
    \cup { [kind |-> "output", lines |-> <<l1, l2>>] : l1 \in DecoderLines, l2 \in DecoderLines }

(* lines 36-58: the first Fineoffset-WH24 object of the output, as           *)
(* <<wind_speed>>; <<>> is None.  A line that is no JSON is skipped; a JSON  *)
(* value that is no object raises AttributeError, which the handler of       *)
(* lines 62-64 turns into None                                               *)
RECURSIVE FirstReading(_)
FirstReading(lines) ==
    IF lines = <<>> THEN <<>>
    ELSE LET data == Head(lines)
         IN  IF ~data.json THEN FirstReading(Tail(lines))
             ELSE IF ~data.object THEN <<>>
             ELSE IF data.model = "Fineoffset-WH24" THEN <<MsToMph(data.wind_avg_m_s)>>
             ELSE FirstReading(Tail(lines))

(* get_latest_reading, lines 13-64 *)
FixedLatestReading(result) ==
    IF result.kind = "output" THEN FirstReading(result.lines) ELSE <<>>

(* what no step of the generator changes *)
fixedFrame == <<callerVars, monitorVars, rampVars, synthVars, shotVars, svVars>>

FixedInit ==
    /\ InitSimpleSmoother
    /\ CallerUnused
    /\ MonitorNotStarted
    /\ RampNotStarted
    /\ SynthNotStarted
    /\ ShotNotStarted
    /\ SmoothValueNotStarted
    /\ fx_pc = "get"
    /\ fx_reading = <<>>
    /\ fx_records = <<>>
    /\ fx_iter = 0
    /\ fx_entry = <<>>

(* lines 74-77: reading = self.get_latest_reading(); if reading *)
FixedGet ==
    /\ fx_pc = "get"
    /\ fx_iter < MaxIters
    /\ fx_iter' = fx_iter + 1
    /\ fx_entry' = <<wind_buffer, last_value, target_value, current_step>>
    /\ \E result \in RunOutcomes :
          /\ fx_reading' = FixedLatestReading(result)
          /\ fx_pc' = IF fx_reading' # <<>> THEN "add" ELSE "normalize_none"
    /\ UNCHANGED <<smootherVars, fixedFrame, fx_records>>

(* lines 78-84: self.wind_smoother.add_wind_reading(wind_speed) *)
FixedAdd ==
    /\ fx_pc = "add"
    /\ SimpleAddFields(fx_reading[1])
    /\ fx_pc' = "normalize"
    /\ UNCHANGED <<fixedFrame, fx_reading, fx_records, fx_iter, fx_entry>>

(* lines 85-96: smooth_speed = get_normalized_value(), then the yield *)
FixedYield ==
    /\ fx_pc = "normalize"
    /\ SimpleGetFields
    /\ fx_records' = Append(fx_records, [wind_speed |-> fx_reading[1],
                                         smooth_speed |-> SimpleNormalized])
    /\ fx_pc' = "yielded"
    /\ UNCHANGED <<fixedFrame, fx_reading, fx_iter, fx_entry>>

(* the else branch with a sample of 0.0 folded into the smoother first *)
FixedYieldNoneAddsZero ==
    /\ fx_pc = "normalize_none"
    /\ SimpleAddFields(0)
    /\ fx_records' = Append(fx_records, [wind_speed |-> 0, smooth_speed |-> SimpleNormalized])
    /\ fx_pc' = "yielded"
    /\ UNCHANGED <<fixedFrame, fx_reading, fx_iter, fx_entry>>

(* lines 97-107: else: smooth_speed = get_normalized_value(), then the yield *)
(* of a record with wind_speed 0.0                                           *)
FixedYieldNone ==
    /\ fx_pc = "normalize_none"
    /\ SimpleGetFields
    /\ fx_records' = Append(fx_records, [wind_speed |-> 0, smooth_speed |-> SimpleNormalized])
    /\ fx_pc' = "yielded"
    /\ UNCHANGED <<fixedFrame, fx_reading, fx_iter, fx_entry>>

(* the consumer asks for the next record *)
FixedResume ==
    /\ fx_pc = "yielded"
    /\ fx_pc' = "sleep"
    /\ UNCHANGED <<smootherVars, fixedFrame, fx_reading, fx_records, fx_iter, fx_entry>>

(* line 109: time.sleep(2), then the top of the loop *)
FixedSleep ==
    /\ fx_pc = "sleep"
    /\ fx_pc' = "get"
    /\ UNCHANGED <<smootherVars, fixedFrame, fx_reading, fx_records, fx_iter, fx_entry>>

(* the consumer closes the generator at the yield, or lines 111-112: a       *)
(* KeyboardInterrupt in the loop ends it                                     *)
FixedStop ==
    /\ fx_pc \in {"get", "add", "normalize", "normalize_none", "yielded", "sleep"}
    /\ fx_pc' = "done"
    /\ UNCHANGED <<smootherVars, fixedFrame, fx_reading, fx_records, fx_iter, fx_entry>>

FixedNext ==
    \/ FixedGet
    \/ FixedAdd
    \/ FixedYield
    \/ FixedYieldNone
    \/ FixedResume
    \/ FixedSleep
    \/ FixedStop

SpecFixed == FixedInit /\ [][FixedNext]_vars

---------------------------------------------------------------------------
(* Properties of the polling generator, checked under SpecFixed *)

(* C33: every iteration of the loop yields exactly one record; an iteration  *)
(* whose get_latest_reading returned None yields a record with wind_speed    *)
(* 0.0 and the smooth_speed of get_normalized_value(), an interpolation      *)
(* between last_value and target_value, and leaves the buffer, last_value    *)
(* and target_value as they were at the top of the iteration.                *)
C33_DegradedRecordEveryIteration ==
    /\ fx_pc \in {"yielded", "sleep", "get"} => Len(fx_records) = fx_iter
    /\ fx_pc \in {"add", "normalize", "normalize_none"} => Len(fx_records) = fx_iter - 1
    /\ (fx_pc \in {"yielded", "sleep"} /\ fx_reading = <<>>) =>
          LET rec == fx_records[Len(fx_records)]
          IN  /\ <<wind_buffer, last_value, target_value>> = SubSeq(fx_entry, 1, 3)
              /\ rec.wind_speed = 0
              /\ rec.smooth_speed =
                    (SimpleSmoothed(last_value, target_value, fx_entry[4],
                                    interpolation_steps) * Unit) \div max_wind_mph
              /\ current_step = Min(fx_entry[4] + 1, interpolation_steps)
              /\ (Min(last_value, target_value) * Unit) \div max_wind_mph <= rec.smooth_speed
              /\ rec.smooth_speed <= (Max(last_value, target_value) * Unit) \div max_wind_mph

(* C33 witness: after an iteration with a reading, an iteration without one  *)
(* has yielded a record whose smooth_speed is on the way to the target       *)
C33_Witness ==
    /\ fx_pc = "sleep"
    /\ fx_reading = <<>>
    /\ fx_iter = 3
    /\ target_value > 0
    /\ Len(wind_buffer) = 1
    /\ fx_records[3].smooth_speed > fx_records[2].smooth_speed
    /\ fx_records[2].wind_speed = 0

---------------------------------------------------------------------------
(* smooth_monitor.SmoothValue (src/smooth_monitor.py:11-32): one object      *)
(* whose set_target runs on the main thread (process_weather_data) and whose *)
(* update runs on the interpolation thread, with no lock.  A thread switch   *)
(* can fall between any two loads and stores of the object's attributes.     *)

MaxTargets == 2     \* set_target calls in one behaviour
MaxUpdates == 61    \* update calls counted after one set_target

(* self.steps_per_second, line 16 *)
steps_per_second == 60

(* Values are exact multiples of 1/SvUnit: with SvUnit a power of 60 every   *)
(* division by steps_per_second of the behaviours explored is exact          *)
RECURSIVE PowerOf(_, _)
PowerOf(b, n) == IF n = 0 THEN 1 ELSE b * PowerOf(b, n - 1)
SvUnit == PowerOf(steps_per_second, MaxTargets)

(* the new_target arguments: 1.0 and 2.0 *)
SvTargets == {SvUnit, 2 * SvUnit}

(* A local of a call is 0 outside the statement that uses it.                *)

(* what no step on the SmoothValue changes *)
svFrame == <<smootherVars, callerVars, monitorVars, rampVars, synthVars, shotVars, fixedVars>>

(* SmoothValue(), lines 12-17, both threads outside their calls *)
SvInit ==
    /\ \E p \in MonitorProfiles : InitMonitorSmoother(p)
    /\ CallerUnused
    /\ MonitorNotStarted
    /\ RampNotStarted
    /\ SynthNotStarted
    /\ ShotNotStarted
    /\ FixedNotStarted
    /\ sv_current = 0
    /\ sv_target = 0
    /\ sv_step_size = 0
    /\ sv_set_pc = "idle"
    /\ sv_new_target = 0
    /\ sv_set_current = 0
    /\ sv_up_pc = "test"
    /\ sv_up_current = 0
    /\ sv_up_step = 0
    /\ sv_up_near = 0
    /\ sv_updates = 0
    /\ nTargets = 0

(* set_target(new_target), line 21: self.target = new_target *)
SvSetTarget ==
    /\ sv_set_pc = "idle"
    /\ nTargets < MaxTargets
    /\ nTargets' = nTargets + 1
    /\ \E t \in SvTargets :
          /\ sv_new_target' = t
          /\ sv_target' = t
    /\ sv_set_pc' = "load_current"
    /\ UNCHANGED <<svFrame, sv_current, sv_step_size, sv_set_current, sv_up_pc,
                   sv_up_current, sv_up_step, sv_up_near, sv_updates>>

(* line 23, right-hand side: the load of self.current *)
SvSetLoadCurrent ==
    /\ sv_set_pc = "load_current"
    /\ sv_set_current' = sv_current
    /\ sv_set_pc' = "store_step"
    /\ UNCHANGED <<svFrame, sv_current, sv_target, sv_step_size, sv_new_target, sv_up_pc,
                   sv_up_current, sv_up_step, sv_up_near, sv_updates, nTargets>>

(* line 23: self.step_size = (new_target - current) / self.steps_per_second, *)
(* and the return.  An update that is under way at the return is not counted *)
(* among the updates after it (sv_updates = -1 until it is over)             *)
SvSetStoreStep ==
    /\ sv_set_pc = "store_step"
    /\ sv_step_size' = (sv_new_target - sv_set_current) \div steps_per_second
    /\ sv_set_pc' = "idle"
    /\ sv_updates' = IF sv_up_pc = "test" THEN 0 ELSE -1
    /\ sv_set_current' = 0
    /\ UNCHANGED <<svFrame, sv_current, sv_target, sv_new_target, sv_up_pc,
                   sv_up_current, sv_up_step, sv_up_near, nTargets>>

set_target == SvSetTarget \/ SvSetLoadCurrent \/ SvSetStoreStep

(* the count of finished updates when one more is over *)
Counted(n) == IF n < 0 THEN 0 ELSE n + 1

(* update(), line 27: if self.current != self.target; else return *)
SvUpdateTest ==
    /\ sv_up_pc = "test"
    /\ sv_updates < MaxUpdates
    /\ IF sv_current # sv_target
       THEN /\ sv_up_pc' = "load_add"
            /\ UNCHANGED sv_updates
       ELSE /\ sv_up_pc' = "test"
            /\ sv_updates' = Counted(sv_updates)
    /\ UNCHANGED <<svFrame, sv_current, sv_target, sv_step_size, sv_set_pc, sv_new_target,
                   sv_set_current, sv_up_current, sv_up_step, sv_up_near, nTargets>>

(* line 28, self.current += self.step_size: the loads *)
SvUpdateLoad ==
    /\ sv_up_pc = "load_add"
    /\ sv_up_current' = sv_current
    /\ sv_up_step' = sv_step_size
    /\ sv_up_pc' = "store_add"
    /\ UNCHANGED <<svFrame, sv_current, sv_target, sv_step_size, sv_set_pc, sv_new_target,
                   sv_set_current, sv_up_near, sv_updates, nTargets>>

(* line 28: the store *)
SvUpdateStore ==
    /\ sv_up_pc = "store_add"
    /\ sv_current' = sv_up_current + sv_up_step
    /\ sv_up_current' = 0
    /\ sv_up_step' = 0
    /\ sv_up_pc' = "load_near"
    /\ UNCHANGED <<svFrame, sv_target, sv_step_size, sv_set_pc, sv_new_target,
                   sv_set_current, sv_up_near, sv_updates, nTargets>>

(* line 30, left operand: abs(self.current - self.target) *)
SvUpdateNear ==
    /\ sv_up_pc = "load_near"
    /\ sv_up_near' = IF sv_current >= sv_target THEN sv_current - sv_target
                     ELSE sv_target - sv_current
    /\ sv_up_pc' = "test_near"
    /\ UNCHANGED <<svFrame, sv_current, sv_target, sv_step_size, sv_set_pc, sv_new_target,
                   sv_set_current, sv_up_current, sv_up_step, sv_updates, nTargets>>

(* line 30: ... < abs(self.step_size); without the snap the call returns *)
SvUpdateTestNear ==
    /\ sv_up_pc = "test_near"
    /\ IF sv_up_near < (IF sv_step_size >= 0 THEN sv_step_size ELSE -sv_step_size)
       THEN /\ sv_up_pc' = "snap"
            /\ UNCHANGED sv_updates
       ELSE /\ sv_up_pc' = "test"
            /\ sv_updates' = Counted(sv_updates)
    /\ sv_up_near' = 0
    /\ UNCHANGED <<svFrame, sv_current, sv_target, sv_step_size, sv_set_pc, sv_new_target,
                   sv_set_current, sv_up_current, sv_up_step, nTargets>>

(* line 31: self.current = self.target, and the return *)
SvUpdateSnap ==
    /\ sv_up_pc = "snap"
    /\ sv_current' = sv_target
    /\ sv_up_pc' = "test"
    /\ sv_updates' = Counted(sv_updates)
    /\ UNCHANGED <<svFrame, sv_target, sv_step_size, sv_set_pc, sv_new_target,
                   sv_set_current, sv_up_current, sv_up_step, sv_up_near, nTargets>>

update ==
    \/ SvUpdateTest
    \/ SvUpdateLoad
    \/ SvUpdateStore
    \/ SvUpdateNear
    \/ SvUpdateTestNear
    \/ SvUpdateSnap

SvNext == set_target \/ update

SpecSmoothValue == SvInit /\ [][SvNext]_vars

---------------------------------------------------------------------------
(* Properties of SmoothValue, checked under SpecSmoothValue *)

(* the distance of a value from the target *)
SvDistance(v) == IF v >= sv_target THEN v - sv_target ELSE sv_target - v

(* C39: after set_target has returned, and while no other set_target runs,   *)
(* every update moves current towards the target and never past it, current  *)
(* equals the target once 60 updates are over, and stays there, whatever the *)
(* interleaving of the two threads was.                                      *)
C39_ConvergesWithoutOvershoot ==
    /\ [](( /\ sv_set_pc = "idle" /\ nTargets >= 1 /\ sv_up_pc = "test"
            /\ sv_updates >= steps_per_second ) => sv_current = sv_target)
    /\ [][( /\ sv_set_pc = "idle" /\ sv_set_pc' = "idle" /\ nTargets >= 1
            /\ sv_updates >= 0 ) => SvDistance(sv_current') <= SvDistance(sv_current)]_vars

=============================================================================
